---- MODULE Spec2Model ----
(***************************************************************************)
(* The LLM reply recovery pipeline of tia_earnings_automation:             *)
(*   Response Normalizer -> JSON Recovery Parser -> Schema Enforcer,       *)
(* as instantiated by the five extraction entry points of src/app.         *)
(*                                                                         *)
(* A text (Python str) is a sequence of one-character strings.  A Python   *)
(* value produced by json.loads is a record with the same six fields for   *)
(* every type, so that any two values can be compared:                     *)
(*   t   : "null" | "true" | "false" | "num" | "str" | "arr" | "obj"       *)
(*   s   : the characters of a str; the fraction digits of a num           *)
(*   n   : the integer part of a num (magnitude)                           *)
(*   neg : 1 for a negative num, else 0                                    *)
(*   a   : the elements of an arr                                          *)
(*   m   : the mapping of an obj, a function from key texts to values      *)
(***************************************************************************)
EXTENDS Integers, Sequences, FiniteSets, TLC

(***************************************************************************)
(* Characters                                                              *)
(***************************************************************************)
\* str.strip() with no argument and json's whitespace, on the model's alphabet
WHITESPACE == {" ", "\n", "\t", "\r"}

DIGITS == {"0", "1", "2", "3", "4", "5", "6", "7", "8", "9"}

\* the characters the regular expression class \w matches
WORD_CHARS ==
    DIGITS \cup {"_"} \cup
    {"a", "b", "c", "d", "e", "f", "g", "h", "i", "j", "k", "l", "m",
     "n", "o", "p", "q", "r", "s", "t", "u", "v", "w", "x", "y", "z",
     "A", "B", "C", "D", "E", "F", "G", "H", "I", "J", "K", "L", "M",
     "N", "O", "P", "Q", "R", "S", "T", "U", "V", "W", "X", "Y", "Z"}

DigitVal(c) ==
    CASE c = "0" -> 0 [] c = "1" -> 1 [] c = "2" -> 2 [] c = "3" -> 3
      [] c = "4" -> 4 [] c = "5" -> 5 [] c = "6" -> 6 [] c = "7" -> 7
      [] c = "8" -> 8 [] c = "9" -> 9

(***************************************************************************)
(* Python str operations                                                   *)
(***************************************************************************)
RECURSIVE LSkip(_, _)
\* the first index >= i of text that holds no whitespace (Len(text)+1 if none)
LSkip(text, i) ==
    IF i <= Len(text) /\ text[i] \in WHITESPACE THEN LSkip(text, i + 1) ELSE i

RECURSIVE RSkip(_, _)
\* the last index <= j of text that holds no whitespace (0 if none)
RSkip(text, j) ==
    IF j >= 1 /\ text[j] \in WHITESPACE THEN RSkip(text, j - 1) ELSE j

strip(text) == SubSeq(text, LSkip(text, 1), RSkip(text, Len(text)))

startswith(text, prefix) ==
    Len(text) >= Len(prefix) /\ SubSeq(text, 1, Len(prefix)) = prefix

endswith(text, suffix) ==
    /\ Len(text) >= Len(suffix)
    /\ SubSeq(text, Len(text) - Len(suffix) + 1, Len(text)) = suffix

\* text[k:]
From(text, k) == SubSeq(text, k + 1, Len(text))

\* text[k:-r] and text[:-r] (k = 0); empty when the two ends cross
Between(text, k, r) == SubSeq(text, k + 1, Len(text) - r)

\* The first of a set of indices, 0 when there is none: what a scan from left
\* to right stops at.
FirstIndex(indices) ==
    IF indices = {} THEN 0
    ELSE CHOOSE j \in indices : \A k \in indices : j <= k

\* the first index >= i of text that holds a character of set, 0 when none
NextIn(text, i, set) ==
    FirstIndex({j \in i .. Len(text) : text[j] \in set})

\* text.find(c, i - 1) + 1: the first index >= i holding c, 0 for Python's -1
FindFrom(text, c, i) == NextIn(text, i, {c})

find(text, c) == FindFrom(text, c, 1)

(***************************************************************************)
(* Values of json.loads                                                    *)
(***************************************************************************)
JVal(t, s, n, neg, a, m) ==
    [t |-> t, s |-> s, n |-> n, neg |-> neg, a |-> a, m |-> m]

JNull == JVal("null", <<>>, 0, 0, <<>>, <<>>)
JTrue == JVal("true", <<>>, 0, 0, <<>>, <<>>)
JFalse == JVal("false", <<>>, 0, 0, <<>>, <<>>)
JStr(s) == JVal("str", s, 0, 0, <<>>, <<>>)
JNum(neg, n, frac) == JVal("num", frac, n, neg, <<>>, <<>>)
JInt(n) == JNum(0, n, <<>>)
JArr(a) == JVal("arr", <<>>, 0, 0, a, <<>>)
JObj(m) == JVal("obj", <<>>, 0, 0, <<>>, m)

\* dict[k] = v
Put(m, k, v) == [x \in (DOMAIN m) \cup {k} |-> IF x = k THEN v ELSE m[x]]

IsDict(v) == v.t = "obj"

(***************************************************************************)
(* json.loads (json.decoder, strict): a recursive-descent scanner.         *)
(* A scan returns [ok, v, i]: whether it matched, the value, and the index *)
(* after the match.                                                        *)
(***************************************************************************)
NoMatch == [ok |-> FALSE, v |-> JNull, i |-> 0]
Match(v, i) == [ok |-> TRUE, v |-> v, i |-> i]

\* The backspace U+0008, which no string literal of the module can spell
BACKSPACE == "BACKSPACE"

\* BACKSLASH of json.decoder: the character an escape stands for (\u escapes
\* are outside the alphabet)
Unescape(c) ==
    CASE c = "n" -> "\n" [] c = "t" -> "\t" [] c = "r" -> "\r"
      [] c = "f" -> "\f" [] c = "b" -> BACKSPACE [] OTHER -> c

RECURSIVE ScanString(_, _, _)
\* py_scanstring from index j, after the opening quote: STRINGCHUNK takes the
\* characters up to the next quote, backslash or control character (index e),
\* which ends the string, starts an escape, or is an error in strict mode.
ScanString(text, j, acc) ==
    LET e == NextIn(text, j, {"\"", "\\", "\n", "\t", "\r"})
        chunk == acc \o SubSeq(text, j, e - 1)
    IN  IF e = 0 THEN NoMatch
        ELSE IF text[e] = "\"" THEN Match(JStr(chunk), e + 1)
        ELSE IF text[e] = "\\"
                 /\ e + 1 <= Len(text)
                 /\ text[e + 1] \in {"\"", "\\", "/", "b", "f", "n", "r", "t"}
             THEN ScanString(text, e + 2, Append(chunk, Unescape(text[e + 1])))
        ELSE NoMatch

RECURSIVE DigitsEnd(_, _)
\* the last index of the run of digits that starts at i
DigitsEnd(text, i) ==
    IF i + 1 <= Len(text) /\ text[i + 1] \in DIGITS
    THEN DigitsEnd(text, i + 1) ELSE i

RECURSIVE IntOf(_, _, _, _)
\* the number the digits text[i..j] spell, after acc
IntOf(text, i, j, acc) ==
    IF i > j THEN acc ELSE IntOf(text, i + 1, j, 10 * acc + DigitVal(text[i]))

RECURSIVE TrimZeros(_)
\* a fraction without its trailing zeros: 1.50 and 1.5 are the same float
TrimZeros(ds) ==
    IF ds # <<>> /\ ds[Len(ds)] = "0"
    THEN TrimZeros(SubSeq(ds, 1, Len(ds) - 1)) ELSE ds

\* NUMBER_RE: (-?(?:0|[1-9]\d*))(\.\d+)?   (exponents are outside the alphabet)
ScanNumber(text, i) ==
    LET neg == IF text[i] = "-" THEN 1 ELSE 0
        b == i + neg
    IN  IF b > Len(text) \/ text[b] \notin DIGITS THEN NoMatch
        ELSE
          LET e == IF text[b] = "0" THEN b ELSE DigitsEnd(text, b)
              hasFrac == /\ e + 2 <= Len(text)
                         /\ text[e + 1] = "."
                         /\ text[e + 2] \in DIGITS
              f == IF hasFrac THEN DigitsEnd(text, e + 2) ELSE e
              frac == IF hasFrac THEN TrimZeros(SubSeq(text, e + 2, f)) ELSE <<>>
              n == IntOf(text, b, e, 0)
          IN  Match(JNum(IF n = 0 /\ frac = <<>> THEN 0 ELSE neg, n, frac), f + 1)

Literal(text, i, word) ==
    i + Len(word) - 1 <= Len(text) /\ SubSeq(text, i, i + Len(word) - 1) = word

RECURSIVE ScanValue(_, _)
RECURSIVE ScanMembers(_, _, _)
RECURSIVE ScanElements(_, _, _)

\* scan_once: the value that starts at index i
ScanValue(text, i) ==
    IF i > Len(text) THEN NoMatch
    ELSE CASE text[i] = "\"" -> ScanString(text, i + 1, <<>>)
           [] text[i] = "{" ->
                LET j == LSkip(text, i + 1)
                IN  IF j <= Len(text) /\ text[j] = "}"
                    THEN Match(JObj(<<>>), j + 1)
                    ELSE ScanMembers(text, j, <<>>)
           [] text[i] = "[" ->
                LET j == LSkip(text, i + 1)
                IN  IF j <= Len(text) /\ text[j] = "]"
                    THEN Match(JArr(<<>>), j + 1)
                    ELSE ScanElements(text, j, <<>>)
           [] text[i] = "n" ->
                IF Literal(text, i, <<"n", "u", "l", "l">>)
                THEN Match(JNull, i + 4) ELSE NoMatch
           [] text[i] = "t" ->
                IF Literal(text, i, <<"t", "r", "u", "e">>)
                THEN Match(JTrue, i + 4) ELSE NoMatch
           [] text[i] = "f" ->
                IF Literal(text, i, <<"f", "a", "l", "s", "e">>)
                THEN Match(JFalse, i + 5) ELSE NoMatch
           [] OTHER -> ScanNumber(text, i)

\* JSONObject: the pairs from the key that must start at index j
ScanMembers(text, j, m) ==
    IF j > Len(text) \/ text[j] # "\"" THEN NoMatch
    ELSE
      LET k == ScanString(text, j + 1, <<>>)
      IN  IF ~k.ok THEN NoMatch
          ELSE
            LET c == LSkip(text, k.i)
            IN  IF c > Len(text) \/ text[c] # ":" THEN NoMatch
                ELSE
                  LET v == ScanValue(text, LSkip(text, c + 1))
                  IN  IF ~v.ok THEN NoMatch
                      ELSE
                        LET d == LSkip(text, v.i)
                            m2 == Put(m, k.v.s, v.v)
                        IN  IF d > Len(text) THEN NoMatch
                            ELSE IF text[d] = "}" THEN Match(JObj(m2), d + 1)
                            ELSE IF text[d] = ","
                                 THEN ScanMembers(text, LSkip(text, d + 1), m2)
                            ELSE NoMatch

\* JSONArray: the elements from the value that must start at index j
ScanElements(text, j, a) ==
    LET v == ScanValue(text, j)
    IN  IF ~v.ok THEN NoMatch
        ELSE
          LET d == LSkip(text, v.i)
              a2 == Append(a, v.v)
          IN  IF d > Len(text) THEN NoMatch
              ELSE IF text[d] = "]" THEN Match(JArr(a2), d + 1)
              ELSE IF text[d] = ","
                   THEN ScanElements(text, LSkip(text, d + 1), a2)
              ELSE NoMatch

\* What a call returns: a value, or the exception it raised
Returned(v) == [exc |-> "none", v |-> v]
Raised(e) == [exc |-> e, v |-> JNull]

\* json.loads(text): the whole text is one value, or JSONDecodeError
loads(text) ==
    LET r == ScanValue(text, LSkip(text, 1))
    IN  IF r.ok /\ LSkip(text, r.i) > Len(text)
        THEN Returned(r.v) ELSE Raised("JSONDecodeError")

(***************************************************************************)
(* Response Normalizer                                                     *)
(***************************************************************************)
\* The grave accent U+0060: one character of a text, written as a named atom
\* because the module's lexer does not take that character in a string literal.
BACKTICK == "BACKTICK"

FENCE == <<BACKTICK, BACKTICK, BACKTICK>>
FENCE_JSON == FENCE \o <<"j", "s", "o", "n">>

prefixes_to_remove ==
    << <<"H", "e", "r", "e", "'", "s", " ", "t", "h", "e", " ", "J", "S", "O", "N", ":">>,
       <<"H", "e", "r", "e", " ", "i", "s", " ", "t", "h", "e", " ", "J", "S", "O", "N", ":">>,
       <<"J", "S", "O", "N", ":">>,
       <<"O", "u", "t", "p", "u", "t", ":">>,
       <<"R", "e", "s", "u", "l", "t", ":">> >>

RECURSIVE RemovePrefixes(_, _)
\* for prefix in prefixes_to_remove: one pass over the list, from entry k on
RemovePrefixes(text, k) ==
    IF k > Len(prefixes_to_remove) THEN text
    ELSE LET prefix == prefixes_to_remove[k]
         IN  RemovePrefixes(IF startswith(text, prefix)
                            THEN strip(From(text, Len(prefix)))
                            ELSE text,
                            k + 1)

\* the chain without its branches for a closing fence
StripOpeningFenceOnly(text) ==
    IF startswith(text, FENCE_JSON) THEN strip(From(text, 7))
    ELSE IF startswith(text, FENCE) THEN strip(From(text, 3))
    ELSE text

\* the chain with its two branches for a complete block only
StripMatchedFencesOnly(text) ==
    IF startswith(text, FENCE_JSON) /\ endswith(text, FENCE)
        THEN strip(Between(text, 7, 3))
    ELSE IF startswith(text, FENCE) /\ endswith(text, FENCE)
        THEN strip(Between(text, 3, 3))
    ELSE text

\* the if / elif chain over the fence markers of a stripped text
StripFences(text) ==
    IF startswith(text, FENCE_JSON) /\ endswith(text, FENCE)
        THEN strip(Between(text, 7, 3))
    ELSE IF startswith(text, FENCE) /\ endswith(text, FENCE)
        THEN strip(Between(text, 3, 3))
    ELSE IF startswith(text, FENCE_JSON) THEN strip(From(text, 7))
    ELSE IF startswith(text, FENCE) THEN strip(From(text, 3))
    ELSE IF endswith(text, FENCE) THEN strip(Between(text, 0, 3))
    ELSE text

\* a Normalizer that also takes a language tag that stands without a fence
StripBareTagToo(text) ==
    LET cleaned_text == RemovePrefixes(StripFences(strip(text)), 1)
    IN  IF startswith(cleaned_text, <<"j", "s", "o", "n">>)
        THEN strip(From(cleaned_text, 4)) ELSE cleaned_text

_strip_markdown_code_blocks(text) == RemovePrefixes(StripFences(strip(text)), 1)

\* one "if cleaned.startswith(marker): cleaned = cleaned[k:].strip()"
StripOpening(cleaned, marker) ==
    IF startswith(cleaned, marker)
    THEN strip(From(cleaned, Len(marker))) ELSE cleaned

\* "if cleaned.endswith(FENCE): cleaned = cleaned[:-3].strip()"
StripClosing(cleaned) ==
    IF endswith(cleaned, FENCE) THEN strip(Between(cleaned, 0, 3)) ELSE cleaned

\* the clean-up at the head of the Grab, Sea Group and Alibaba parsers
InlineCleanup(json_text) ==
    StripClosing(StripOpening(StripOpening(strip(json_text), FENCE_JSON), FENCE))

(***************************************************************************)
(* The pre-passes: re.sub over the cleaned text                            *)
(***************************************************************************)
NULL_UPPER == <<"N", "U", "L", "L">>
NULL_LOWER == <<"n", "u", "l", "l">>

\* \bNULL\b matches at index i
NullAt(text, i) ==
    /\ Literal(text, i, NULL_UPPER)
    /\ (i = 1 \/ text[i - 1] \notin WORD_CHARS)
    /\ (i + 4 > Len(text) \/ text[i + 4] \notin WORD_CHARS)

RECURSIVE SubNullFrom(_, _)
\* the text from index i on with every (leftmost, non-overlapping) match replaced
SubNullFrom(text, i) ==
    LET k == FirstIndex({j \in i .. Len(text) : NullAt(text, j)})
    IN  IF k = 0 THEN From(text, i - 1)
        ELSE SubSeq(text, i, k - 1) \o NULL_LOWER \o SubNullFrom(text, k + 4)

\* re.sub(r'\bNULL\b', 'null', cleaned)
sub_NULL(cleaned) == SubNullFrom(cleaned, 1)

\* The last index of group 1, (null|true|false|"[^"]*"|\d+\.?\d*), matched at
\* index i, 0 when no alternative matches there.  What follows the group is
\* whitespace, so the greedy end of each alternative is the only one that can
\* lead to a match.
GroupEnd(text, i) ==
    CASE Literal(text, i, NULL_LOWER) -> i + 3
      [] Literal(text, i, <<"t", "r", "u", "e">>) -> i + 3
      [] Literal(text, i, <<"f", "a", "l", "s", "e">>) -> i + 4
      [] text[i] = "\"" -> FindFrom(text, "\"", i + 1)
      [] text[i] \in DIGITS ->
            LET d == DigitsEnd(text, i)
            IN  IF d + 1 <= Len(text) /\ text[d + 1] = "."
                THEN (IF d + 2 <= Len(text) /\ text[d + 2] \in DIGITS
                      THEN DigitsEnd(text, d + 2) ELSE d + 1)
                ELSE d
      [] OTHER -> 0

\* The index of the quote that ends a match of \s*\n\s*" which starts at index
\* j, 0 when there is none: a run of whitespace holding a newline, then a quote.
GapEnd(text, j) ==
    LET q == LSkip(text, j)
    IN  IF /\ q <= Len(text)
           /\ text[q] = "\""
           /\ \E x \in j .. (q - 1) : text[x] = "\n"
        THEN q ELSE 0

\* the pattern matches at index i: the index of the quote that ends the match
MatchEnd(text, i) ==
    LET e == GroupEnd(text, i) IN IF e = 0 THEN 0 ELSE GapEnd(text, e + 1)

RECURSIVE SubCommaFrom(_, _)
\* the text from index i on with every (leftmost, non-overlapping) match
\* replaced by group 1, a comma, a newline and a quote
SubCommaFrom(text, i) ==
    LET k == FirstIndex({j \in i .. Len(text) : MatchEnd(text, j) # 0})
    IN  IF k = 0 THEN From(text, i - 1)
        ELSE SubSeq(text, i, GroupEnd(text, k)) \o <<",", "\n", "\"">>
               \o SubCommaFrom(text, MatchEnd(text, k) + 1)

\* re.sub(r'(null|true|false|"[^"]*"|\d+\.?\d*)\s*\n\s*"', r'\1,\n"', cleaned)
sub_missing_commas(cleaned) == SubCommaFrom(cleaned, 1)

(***************************************************************************)
(* JSON Recovery Parser                                                    *)
(***************************************************************************)
\* Optional[str]
None == [some |-> FALSE, s |-> <<>>]
Some(s) == [some |-> TRUE, s |-> s]

RECURSIVE ExtractLoop(_, _, _, _)
\* The for loop of _extract_json_block from index from on.  Only a brace
\* changes start_idx or bracket_depth, so the loop is followed from brace to
\* brace: idx is the next index that holds one.
ExtractLoop(text, from, start_idx, bracket_depth) ==
    LET idx == NextIn(text, from, {"{", "}"})
    IN  IF idx = 0 THEN None
        ELSE IF text[idx] = "{"
             THEN ExtractLoop(text, idx + 1,
                              IF start_idx = 0 THEN idx ELSE start_idx,
                              bracket_depth + 1)
        ELSE IF bracket_depth > 0
             THEN (IF bracket_depth - 1 = 0 /\ start_idx # 0
                   THEN Some(SubSeq(text, start_idx, idx))
                   ELSE ExtractLoop(text, idx + 1, start_idx, bracket_depth - 1))
        ELSE ExtractLoop(text, idx + 1, start_idx, bracket_depth)

RECURSIVE ExtractLoopUnguarded(_, _, _, _)
\* the loop without "if bracket_depth > 0:": a "}" before the first "{" is
\* counted too
ExtractLoopUnguarded(text, from, start_idx, bracket_depth) ==
    LET idx == NextIn(text, from, {"{", "}"})
    IN  IF idx = 0 THEN None
        ELSE IF text[idx] = "{"
             THEN ExtractLoopUnguarded(text, idx + 1,
                                       IF start_idx = 0 THEN idx ELSE start_idx,
                                       bracket_depth + 1)
        ELSE IF bracket_depth - 1 = 0 /\ start_idx # 0
             THEN Some(SubSeq(text, start_idx, idx))
        ELSE ExtractLoopUnguarded(text, idx + 1, start_idx, bracket_depth - 1)

ExtractCountingEveryBrace(text) == ExtractLoopUnguarded(text, 1, 0, 0)

\* a third layer: when the first block is not valid JSON, the scan is run
\* again on the text after it
ExtractRetrying(text) ==
    LET first == ExtractLoop(text, 1, 0, 0)
        after == find(text, "{") + Len(first.s) - 1
    IN  IF first.some /\ loads(first.s).exc # "none"
        THEN ExtractLoop(From(text, after), 1, 0, 0)
        ELSE first

_extract_json_block(text) == ExtractLoop(text, 1, 0, 0)

_parse_llm_json_response(json_text) ==
    LET cleaned_text == _strip_markdown_code_blocks(json_text)
        direct == loads(cleaned_text)
        json_block == _extract_json_block(cleaned_text)
    IN  IF direct.exc = "none" THEN direct
        ELSE IF json_block.some /\ json_block.s # <<>>
                  /\ loads(json_block.s).exc = "none"
             THEN loads(json_block.s)
        ELSE Raised("JSONDecodeError")

RECURSIVE InlineLoop(_, _, _, _)
\* The bracket-matching for loop of the company parsers from index from on,
\* followed from brace to brace; None when the loop ends without returning.
InlineLoop(cleaned, from, start_idx, bracket_depth) ==
    LET idx == NextIn(cleaned, from, {"{", "}"})
    IN  IF idx = 0 THEN None
        ELSE IF cleaned[idx] = "{"
             THEN InlineLoop(cleaned, idx + 1, start_idx, bracket_depth + 1)
        ELSE IF bracket_depth - 1 = 0
             THEN Some(SubSeq(cleaned, start_idx, idx))
        ELSE InlineLoop(cleaned, idx + 1, start_idx, bracket_depth - 1)

\* try: json.loads(cleaned) except JSONDecodeError: the bracket-matching fallback
LoadsWithFallback(cleaned) ==
    LET direct == loads(cleaned)
        start_idx == find(cleaned, "{")
        json_block == InlineLoop(cleaned, start_idx, start_idx, 0)
    IN  IF direct.exc = "none" THEN direct
        ELSE IF start_idx = 0 THEN Raised("JSONDecodeError")
        ELSE IF json_block.some THEN loads(json_block.s)
        ELSE Raised("JSONDecodeError")

_parse_grab_json_response(json_text) ==
    LoadsWithFallback(sub_missing_commas(sub_NULL(InlineCleanup(json_text))))

_parse_sea_group_json_response(json_text) ==
    LoadsWithFallback(sub_NULL(InlineCleanup(json_text)))

_parse_alibaba_json_response(json_text) ==
    LoadsWithFallback(sub_missing_commas(sub_NULL(InlineCleanup(json_text))))

(***************************************************************************)
(* JSON documents and their serialization (json.dumps), the X and the      *)
(* serialize(X) of the round-trip property.  A document is the value as    *)
(* written down: a dict keeps the order of its keys.                       *)
(***************************************************************************)
Doc(t, s, n, neg, a, keys) ==
    [t |-> t, s |-> s, n |-> n, neg |-> neg, a |-> a, keys |-> keys]

DNull == Doc("null", <<>>, 0, 0, <<>>, <<>>)
DTrue == Doc("true", <<>>, 0, 0, <<>>, <<>>)
DStr(s) == Doc("str", s, 0, 0, <<>>, <<>>)
DNum(neg, n, frac) == Doc("num", frac, n, neg, <<>>, <<>>)
DInt(n) == DNum(0, n, <<>>)
DArr(a) == Doc("arr", <<>>, 0, 0, a, <<>>)
\* the dict {keys[1]: a[1], keys[2]: a[2], ...}
DObj(keys, a) == Doc("obj", <<>>, 0, 0, a, keys)

RECURSIVE IntDigits(_)
IntDigits(n) ==
    LET d == <<"0", "1", "2", "3", "4", "5", "6", "7", "8", "9">>
    IN  IF n < 10 THEN <<d[n + 1]>> ELSE IntDigits(n \div 10) \o <<d[(n % 10) + 1]>>

RECURSIVE EscapeFrom(_, _)
\* the characters of a str as json.dumps writes them between quotes
EscapeFrom(s, i) ==
    IF i > Len(s) THEN <<>>
    ELSE (CASE s[i] = "\"" -> <<"\\", "\"">>
            [] s[i] = "\\" -> <<"\\", "\\">>
            [] s[i] = "\n" -> <<"\\", "n">>
            [] s[i] = "\t" -> <<"\\", "t">>
            [] s[i] = "\r" -> <<"\\", "r">>
            [] OTHER -> <<s[i]>>) \o EscapeFrom(s, i + 1)

Quoted(s) == <<"\"">> \o EscapeFrom(s, 1) \o <<"\"">>

RECURSIVE SerializeDialect(_, _, _)
RECURSIVE SerializeItems(_, _, _, _)
\* json.dumps(d), with the token written for None and the text written between
\* the members of a dict as parameters: an LLM writes NULL for the first and a
\* line break for the second
SerializeDialect(d, null_token, member_separator) ==
    CASE d.t = "null" -> null_token
      [] d.t = "true" -> <<"t", "r", "u", "e">>
      [] d.t = "false" -> <<"f", "a", "l", "s", "e">>
      [] d.t = "str" -> Quoted(d.s)
      [] d.t = "num" ->
            (IF d.neg = 1 THEN <<"-">> ELSE <<>>) \o IntDigits(d.n)
              \o (IF d.s = <<>> THEN <<>> ELSE <<".">> \o d.s)
      [] d.t = "arr" ->
            <<"[">> \o SerializeItems(d, 1, null_token, member_separator) \o <<"]">>
      [] d.t = "obj" ->
            <<"{">> \o SerializeItems(d, 1, null_token, member_separator) \o <<"}">>

\* the items of an arr or obj from item i on
SerializeItems(d, i, null_token, member_separator) ==
    IF i > Len(d.a) THEN <<>>
    ELSE (IF i = 1 THEN <<>>
          ELSE IF d.t = "obj" THEN member_separator ELSE <<",", " ">>)
           \o (IF d.t = "obj" THEN Quoted(d.keys[i]) \o <<":", " ">> ELSE <<>>)
           \o SerializeDialect(d.a[i], null_token, member_separator)
           \o SerializeItems(d, i + 1, null_token, member_separator)

\* json.dumps(d)
Serialize(d) == SerializeDialect(d, NULL_LOWER, <<",", " ">>)

\* d with NULL written for every None
SerializeNULL(d) == SerializeDialect(d, NULL_UPPER, <<",", " ">>)

\* d with a line break and no comma between the members of a dict
SerializeLines(d) == SerializeDialect(d, NULL_LOWER, <<"\n">>)

RECURSIVE Denote(_)
RECURSIVE DenoteItems(_, _, _)
RECURSIVE DenotePairs(_, _, _)
\* the Python value a document stands for
Denote(d) ==
    CASE d.t = "arr" -> JArr(DenoteItems(d, 1, <<>>))
      [] d.t = "obj" -> JObj(DenotePairs(d, 1, <<>>))
      [] OTHER -> JVal(d.t, d.s, d.n, d.neg, <<>>, <<>>)

DenoteItems(d, i, acc) ==
    IF i > Len(d.a) THEN acc
    ELSE DenoteItems(d, i + 1, Append(acc, Denote(d.a[i])))

DenotePairs(d, i, m) ==
    IF i > Len(d.a) THEN m
    ELSE DenotePairs(d, i + 1, Put(m, d.keys[i], Denote(d.a[i])))

(***************************************************************************)
(* The texts the model feeds to the parsers: a body between a wrapping.    *)
(***************************************************************************)
KEY_A == <<"a">>
KEY_B == <<"b">>
COMPANY_SLUG == <<"c", "o", "m", "p", "a", "n", "y", "_", "s", "l", "u", "g">>
REVENUE == <<"r", "e", "v", "e", "n", "u", "e">>
ERROR_KEY == <<"e", "r", "r", "o", "r">>
GRAB_COM == <<"g", "r", "a", "b", "-", "c", "o", "m">>
SEA_GROUP_GARENA == <<"s", "e", "a", "-", "g", "r", "o", "u", "p", "-", "g", "a", "r", "e", "n", "a">>
ALIBABA_GROUP == <<"a", "l", "i", "b", "a", "b", "a", "-", "g", "r", "o", "u", "p">>

\* valid JSON objects X
DOCS ==
    { DObj(<<>>, <<>>),
      DObj(<<KEY_A>>, <<DInt(1)>>),
      DObj(<<KEY_A, KEY_B>>, <<DInt(1), DInt(2)>>),
      DObj(<<KEY_A>>, <<DNull>>),
      DObj(<<KEY_A>>, <<DStr(<<"N", "U", "L", "L">>)>>),
      DObj(<<KEY_A>>, <<DStr(<<"i", "s", " ", "N", "U", "L", "L", "\n", "x">>)>>),
      DObj(<<NULL_UPPER>>, <<DTrue>>),
      DObj(<<KEY_A>>, <<DObj(<<KEY_B>>, <<DNum(1, 1, <<"5">>)>>)>>),
      DObj(<<KEY_A>>, <<DStr(<<"}">>)>>),
      DObj(<<KEY_A>>, <<DStr(<<"{", "\"">>)>>),
      DObj(<<KEY_A, KEY_B>>, <<DArr(<<DInt(1), DStr(<<"x">>)>>), DInt(20)>>),
      DObj(<<ERROR_KEY>>, <<DInt(1)>>),
      DObj(<<COMPANY_SLUG, REVENUE>>, <<DStr(<<"x">>), DInt(100)>>),
      DObj(<<REVENUE, COMPANY_SLUG>>, <<DInt(100), DStr(GRAB_COM)>>),
      DObj(<<KEY_A, KEY_B>>, <<DNull, DStr(<<"x">>)>>),
      DObj(<<KEY_A, KEY_B>>, <<DTrue, DNull>>),
      DObj(<<COMPANY_SLUG>>, <<DStr(SEA_GROUP_GARENA)>>),
      DObj(<<COMPANY_SLUG, KEY_A>>, <<DStr(ALIBABA_GROUP), DNull>>),
      DObj(<<COMPANY_SLUG, KEY_A>>, <<DStr(<<"x">>), DStr(NULL_UPPER)>>) }


\* JSON written in the LLM dialects the pre-passes repair: NULL for null, a
\* comma missing at a line break
DIALECT_BODIES ==
    { <<"{", "\"", "a", "\"", ":", " ", "N", "U", "L", "L", "}">>,
      <<"{", "\"", "a", "\"", ":", " ", "N", "U", "L", "L", ",", " ", "\"", "b", "\"", ":", " ", "\"", "N", "U", "L", "L", "\"", "}">>,
      <<"{", "\"", "a", "\"", ":", " ", "1", "\n", "\"", "b", "\"", ":", " ", "2", "}">>,
      <<"{", "\"", "a", "\"", ":", " ", "\"", "x", "\"", "\n", "\"", "b", "\"", ":", " ", "2", "}">>,
      <<"{", "\"", "a", "\"", ":", " ", "n", "u", "l", "l", " ", "\n", " ", "\"", "b", "\"", ":", " ", "t", "r", "u", "e", "}">>,
      <<"{", "\"", "a", "\"", ":", " ", "1", ".", "5", "\n", "\n", "\"", "b", "\"", ":", " ", "N", "U", "L", "L", "\n", "}">>,
      <<"{", "\"", "a", "\"", ":", " ", "f", "a", "l", "s", "e", "\n", "\"", "b", "\"", ":", " ", "2", "}">> }

\* valid JSON that is no object
NON_OBJECT_BODIES ==
    { <<"[", "1", "]">>,
      <<"1">>,
      <<"n", "u", "l", "l">>,
      <<"\"", "x", "\"">>,
      <<"N", "U", "L", "L">>,
      <<"t", "r", "u", "e">> }

\* no value at all, or an object cut short or malformed
INVALID_BODIES ==
    { <<>>,
      <<"{">>,
      <<"{", "\"", "a", "\"", ":", " ", "}">>,
      <<"{", "\"", "a", "\"", " ", "1", "}">>,
      <<"}", "{">>,
      <<"x">>,
      <<"{", "\"", "a", "\"", ":", " ", "1", ",", "}">>,
      <<"{", "\"", "a", "\"", ":", " ", "{", "\"", "b", "\"", ":", " ", "1", "}">> }

\* more than one brace block
BLOCK_BODIES ==
    { <<"{", "b", "a", "d", "}", " ", "{", "\"", "a", "\"", ":", " ", "1", "}">>,
      <<"{", "\"", "a", "\"", ":", " ", "1", "}", " ", "{", "\"", "b", "\"", ":", " ", "2", "}">>,
      <<"}", " ", "{", "\"", "a", "\"", ":", " ", "1", "}">> }

\* inner texts that themselves start like a tag, a boilerplate prefix or a fence
MARKER_BODIES ==
    { <<"j", "s", "o", "n", "{", "\"", "a", "\"", ":", " ", "1", "}">>,
      <<"J", "S", "O", "N", ":", " ", "{", "\"", "a", "\"", ":", " ", "1", "}">>,
      <<"O", "u", "t", "p", "u", "t", ":", "{", "\"", "a", "\"", ":", " ", "1", "}">>,
      <<BACKTICK, BACKTICK, BACKTICK, "{", "\"", "a", "\"", ":", " ", "1", "}">>,
      <<BACKTICK, BACKTICK, BACKTICK>>,
      <<BACKTICK, BACKTICK>>,
      <<"J", "S", "O", "N", ":">> }

BODIES ==
    {Serialize(d) : d \in DOCS} \cup {SerializeNULL(d) : d \in DOCS}
        \cup {SerializeLines(d) : d \in DOCS} \cup DIALECT_BODIES \cup NON_OBJECT_BODIES
        \cup INVALID_BODIES \cup BLOCK_BODIES \cup MARKER_BODIES

\* what an LLM puts around the body: <<before, after>>
WRAPPINGS ==
    { <<<<>>,
         <<>>>>,
      <<<<"S", "o", "m", "e", " ", "p", "r", "e", "a", "m", "b", "l", "e", " ", "t", "e", "x", "t", " ">>,
         <<" ", "t", "r", "a", "i", "l", "i", "n", "g", " ", "j", "u", "n", "k">>>>,
      <<<<BACKTICK, BACKTICK, BACKTICK, "j", "s", "o", "n", "\n">>,
         <<"\n", BACKTICK, BACKTICK, BACKTICK>>>>,
      <<<<BACKTICK, BACKTICK, BACKTICK, "\n">>,
         <<"\n", BACKTICK, BACKTICK, BACKTICK>>>>,
      <<<<BACKTICK, BACKTICK, BACKTICK>>,
         <<BACKTICK, BACKTICK, BACKTICK>>>>,
      <<<<BACKTICK, BACKTICK, BACKTICK, "j", "s", "o", "n">>,
         <<BACKTICK, BACKTICK, BACKTICK>>>>,
      <<<<BACKTICK, BACKTICK, BACKTICK, "j", "s", "o", "n", "\n">>,
         <<>>>>,
      <<<<BACKTICK, BACKTICK, BACKTICK>>,
         <<>>>>,
      <<<<>>,
         <<"\n", BACKTICK, BACKTICK, BACKTICK>>>>,
      <<<<"J", "S", "O", "N", ":">>,
         <<>>>>,
      <<<<"H", "e", "r", "e", "'", "s", " ", "t", "h", "e", " ", "J", "S", "O", "N", ":", " ">>,
         <<>>>>,
      <<<<"H", "e", "r", "e", " ", "i", "s", " ", "t", "h", "e", " ", "J", "S", "O", "N", ":">>,
         <<" ">>>>,
      <<<<"O", "u", "t", "p", "u", "t", ":", " ">>,
         <<"\n", BACKTICK, BACKTICK, BACKTICK>>>>,
      <<<<"R", "e", "s", "u", "l", "t", ":", " ", "J", "S", "O", "N", ":">>,
         <<>>>>,
      <<<<"J", "S", "O", "N", ":", "J", "S", "O", "N", ":">>,
         <<>>>>,
      <<<<" ", "\n">>,
         <<" ", "\n">>>>,
      <<<<"[">>,
         <<"]">>>>,
      <<<<" ", " ", BACKTICK, BACKTICK, BACKTICK, "j", "s", "o", "n", "\n", " ">>,
         <<" ", "\n", BACKTICK, BACKTICK, BACKTICK, "\n">>>>,
      <<<<"\n", BACKTICK, BACKTICK, BACKTICK>>,
         <<BACKTICK, BACKTICK, BACKTICK, "\t">>>>,
      <<<<BACKTICK, BACKTICK, BACKTICK, "j", "s", "o", "n", BACKTICK, BACKTICK, BACKTICK>>,
         <<BACKTICK, BACKTICK, BACKTICK, BACKTICK, BACKTICK, BACKTICK>>>>,
      <<<<BACKTICK, BACKTICK, BACKTICK, "j", "s", "o", "n", " ", BACKTICK, BACKTICK, BACKTICK, "j", "s", "o", "n">>,
         <<>>>> }

\* RawResponse: the texts an LLM reply is drawn from
TEXTS == {w[1] \o body \o w[2] : w \in WRAPPINGS, body \in BODIES}

(***************************************************************************)
(* State                                                                   *)
(***************************************************************************)
VARIABLES
    _PROMPT_CACHE,     \* extract_data._PROMPT_CACHE
    _client_instance,  \* client._client_instance
    entry,            \* the extraction entry point that ran, "none" before a call
    prompt_file,      \* what was at its prompt path during the call
    reply,            \* what the LLM request of the call produced
    result,           \* what the call gave its caller: a value, or an exception
    fresh_result,     \* what the same call gives in a process that made no call
                      \* before it (the module globals as they are after import)
    failure,          \* the failure that occurred during the call, "none" if none
    llm_requests,     \* the LLM requests made during the call
    warned,           \* whether the identifier check emitted its st.warning
    parser,           \* the Recovery Parser that was applied last, "none" if none
    json_text,        \* the text it was applied to
    cleaned,          \* the output of its Response Normalizer
    parsed,           \* what it returned or raised
    heap,             \* convert_sgd_to_usd: the dicts in memory, by address
    rate_file,        \* what is at sgd_usd_rates_json.json
    returned,         \* what convert_sgd_to_usd returned, NotReturned before
    session_state,    \* st.session_state of the multi-page application
    widgets,          \* the values the browser holds for the rendered widgets
    displayed,        \* what the last run rendered
    event,            \* the interaction that started the last run
    pushed,           \* the push function called in the last run and its argument
    supabase,         \* supabase_client.supabase is not None
    main_session_state, \* st.session_state of main.py
    tmp_files,        \* the files under .tmp
    main_run          \* the last run of main.py: the file in its uploader,
                      \* whether st.rerun() was called, the button pressed and
                      \* the session state and the files before it

vars == <<_PROMPT_CACHE, _client_instance, entry, prompt_file, reply, result,
          fresh_result, failure,
          llm_requests, warned, parser, json_text, cleaned, parsed,
          heap, rate_file, returned,
          session_state, widgets, displayed, event, pushed, supabase,
          main_session_state, tmp_files, main_run>>

extractionVars ==
    <<_PROMPT_CACHE, _client_instance, entry, prompt_file, reply, result,
      fresh_result, failure, llm_requests, warned, parser, json_text, cleaned, parsed>>

currencyVars == <<heap, rate_file, returned>>

uiVars == <<session_state, widgets, displayed, event, pushed, supabase>>

legacyVars == <<main_session_state, tmp_files, main_run>>

\* the variables the extraction entry points and the parsers leave alone
otherVars == <<currencyVars, uiVars, legacyVars>>

NotReturned == [kind |-> "not returned", msg |-> "", arg |-> <<>>, addr |-> 0]

\* no conversion is under way
CurrencyIdle ==
    /\ heap = <<>>
    /\ rate_file = [state |-> "missing", rate_lookup |-> <<>>]
    /\ returned = NotReturned

PARSERS ==
    {"_parse_llm_json_response", "_parse_grab_json_response",
     "_parse_sea_group_json_response", "_parse_alibaba_json_response"}

\* the Response Normalizer of parser p
Normalize(p, text) ==
    IF p = "_parse_llm_json_response"
    THEN _strip_markdown_code_blocks(text) ELSE InlineCleanup(text)

\* parser p applied to text
Parse(p, text) ==
    CASE p = "_parse_llm_json_response" -> _parse_llm_json_response(text)
      [] p = "_parse_grab_json_response" -> _parse_grab_json_response(text)
      [] p = "_parse_sea_group_json_response" -> _parse_sea_group_json_response(text)
      [] p = "_parse_alibaba_json_response" -> _parse_alibaba_json_response(text)

NotCalled == [exc |-> "not called", v |-> JNull]

(***************************************************************************)
(* Exceptions and the error sentinel                                       *)
(***************************************************************************)
\* an exception: its class and str(exc)
Exc(type, msg) == [type |-> type, msg |-> msg]

\* the classes of the model that derive from Exception
EXCEPTION_CLASSES ==
    {"JSONDecodeError", "ValueError", "AttributeError", "KeyError",
     "APIConnectionError"}

INVALID_JSON_ERROR ==
    <<"I", "n", "v", "a", "l", "i", "d", " ", "J", "S", "O", "N", " ", "r",
      "e", "s", "p", "o", "n", "s", "e", " ", "f", "r", "o", "m", " ", "L",
      "L", "M">>

LLM_ERROR ==
    <<"L", "L", "M", " ", "e", "r", "r", "o", "r", ":", " ">>

\* {"error": msg}
ErrorSentinel(msg) == JObj(Put(<<>>, ERROR_KEY, JStr(msg)))

\* type(v).__name__
TypeName(v) ==
    CASE v.t = "arr" -> <<"l", "i", "s", "t">>
      [] v.t = "str" -> <<"s", "t", "r">>
      [] v.t = "num" -> IF v.s = <<>> THEN <<"i", "n", "t">>
                        ELSE <<"f", "l", "o", "a", "t">>
      [] v.t = "null" -> <<"N", "o", "n", "e", "T", "y", "p", "e">>
      [] v.t \in {"true", "false"} -> <<"b", "o", "o", "l">>
      [] v.t = "obj" -> <<"d", "i", "c", "t">>

\* AttributeError: '<type>' object has no attribute '<name>'
NoAttribute(type_name, name) ==
    Exc("AttributeError",
        <<"'">> \o type_name \o
        <<"'", " ", "o", "b", "j", "e", "c", "t", " ", "h", "a", "s", " ",
          "n", "o", " ", "a", "t", "t", "r", "i", "b", "u", "t", "e", " ",
          "'">>
        \o name \o <<"'">>)

\* the ValueError of get_client
API_KEY_NOT_FOUND ==
    Exc("ValueError",
        <<"O", "P", "E", "N", "R", "O", "U", "T", "E", "R", "_", "A", "P",
          "I", "_", "K", "E", "Y", " ", "n", "o", "t", " ", "f", "o", "u",
          "n", "d", ".", " ", "P", "l", "e", "a", "s", "e", " ", "s", "e",
          "t", " ", "i", "t", " ", "i", "n", " ", "S", "t", "r", "e", "a",
          "m", "l", "i", "t", " ", "s", "e", "c", "r", "e", "t", "s", " ",
          "(", "f", "o", "r", " ", "c", "l", "o", "u", "d", " ", "d", "e",
          "p", "l", "o", "y", "m", "e", "n", "t", ")", " ", "o", "r", " ",
          ".", "e", "n", "v", " ", "f", "i", "l", "e", " ", "(", "f", "o",
          "r", " ", "l", "o", "c", "a", "l", " ", "d", "e", "v", "e", "l",
          "o", "p", "m", "e", "n", "t", ")", ".">>)

\* the failure of the request in the network layer
CONNECTION_ERROR ==
    Exc("APIConnectionError", <<"C", "o", "n", "n", "e", "c", "t", "i", "o", "n", " ", "e", "r",
          "r", "o", "r", ".">>)

\* str.format on a template that holds a brace pair other than the two fields,
\* as the {"date": ...} of a JSON example: KeyError('"date"')
FORMAT_KEY_ERROR ==
    Exc("KeyError", <<"'", "\"", "d", "a", "t", "e", "\"", "'">>)

\* the except clauses with every exception reported as a parse failure
ExceptAllAsInvalidJSON(exc) ==
    Returned(ErrorSentinel(INVALID_JSON_ERROR))

\* the except clauses without "except Exception"
ExceptJSONDecodeErrorOnly(exc) ==
    IF exc.type = "JSONDecodeError"
        THEN Returned(ErrorSentinel(INVALID_JSON_ERROR))
    ELSE Raised(exc.type)

\* The except clauses of an extraction entry point:
\*   except json.JSONDecodeError -> {"error": INVALID_JSON_ERROR}
\*   except Exception            -> {"error": f"LLM error: {exc}"}
ExceptClauses(exc) ==
    IF exc.type = "JSONDecodeError"
        THEN Returned(ErrorSentinel(INVALID_JSON_ERROR))
    ELSE IF exc.type \in EXCEPTION_CLASSES
        THEN Returned(ErrorSentinel(LLM_ERROR \o exc.msg))
    ELSE Raised(exc.type)

(***************************************************************************)
(* The extraction entry points                                             *)
(***************************************************************************)
COMPANY_ENTRY_POINTS ==
    {"extract_grab_data_with_llm", "extract_sea_group_data_with_llm",
     "extract_alibaba_data_with_llm"}

GENERIC_ENTRY_POINTS ==
    {"extract_financial_data_with_llm", "extract_public_company_data_with_llm"}

ENTRY_POINTS == GENERIC_ENTRY_POINTS \cup COMPANY_ENTRY_POINTS

\* the Recovery Parser an entry point calls
ParserOf(e) ==
    CASE e = "extract_grab_data_with_llm" -> "_parse_grab_json_response"
      [] e = "extract_sea_group_data_with_llm" -> "_parse_sea_group_json_response"
      [] e = "extract_alibaba_data_with_llm" -> "_parse_alibaba_json_response"
      [] OTHER -> "_parse_llm_json_response"

\* the identifier a company entry point expects in company_slug
ExpectedIdentifier(e) ==
    CASE e = "extract_grab_data_with_llm" -> GRAB_COM
      [] e = "extract_sea_group_data_with_llm" -> SEA_GROUP_GARENA
      [] e = "extract_alibaba_data_with_llm" -> ALIBABA_GROUP

\* the message an entry point returns when its prompt is missing
PromptMissingMessage(e) ==
    CASE e = "extract_financial_data_with_llm" ->
            <<"P", "r", "o", "m", "p", "t", " ", "t", "e", "m", "p", "l",
              "a", "t", "e", " ", "i", "s", " ", "m", "i", "s", "s", "i",
              "n", "g", ".">>
      [] e = "extract_public_company_data_with_llm" ->
            <<"P", "u", "b", "l", "i", "c", " ", "c", "o", "m", "p", "a",
              "n", "y", " ", "p", "r", "o", "m", "p", "t", " ", "t", "e",
              "m", "p", "l", "a", "t", "e", " ", "i", "s", " ", "m", "i",
              "s", "s", "i", "n", "g", ".">>
      [] e = "extract_grab_data_with_llm" ->
            <<"G", "r", "a", "b", " ", "p", "r", "o", "m", "p", "t", " ",
              "t", "e", "m", "p", "l", "a", "t", "e", " ", "i", "s", " ",
              "m", "i", "s", "s", "i", "n", "g", ".">>
      [] e = "extract_sea_group_data_with_llm" ->
            <<"S", "e", "a", " ", "G", "r", "o", "u", "p", " ", "p", "r",
              "o", "m", "p", "t", " ", "t", "e", "m", "p", "l", "a", "t",
              "e", " ", "i", "s", " ", "m", "i", "s", "s", "i", "n", "g",
              ".">>
      [] e = "extract_alibaba_data_with_llm" ->
            <<"A", "l", "i", "b", "a", "b", "a", " ", "G", "r", "o", "u",
              "p", " ", "p", "r", "o", "m", "p", "t", " ", "t", "e", "m",
              "p", "l", "a", "t", "e", " ", "i", "s", " ", "m", "i", "s",
              "s", "i", "n", "g", ".">>

\* What open() finds at a prompt path: a file with a template section that
\* formats, one whose template holds a stray brace pair, one with no template
\* section, an empty file, no file, or a file that cannot be read.
FILE_STATES ==
    {"present", "stray_braces", "no_template", "empty", "missing", "unreadable"}

\* _load_prompt_from_file, _load_grab_prompt, _load_sea_group_prompt,
\* _load_alibaba_prompt: whether the text they return is non-empty
LoadsPromptText(file) == file \in {"present", "stray_braces", "no_template"}

\* get_prompt_config: the cache after the call, which is what it returns.
\* "None" is the cache before the first load, "empty" the cache {} that
\* _reset_prompt_cache_with_error leaves.
\* "if not _PROMPT_CACHE:" for "if _PROMPT_CACHE is None:": an empty cache is
\* loaded again
ReloadWhenEmpty(cache, file) ==
    IF cache \notin {"None", "empty"} THEN cache
    ELSE CASE file = "present" -> "loaded"
           [] file = "stray_braces" -> "loaded_stray_braces"
           [] OTHER -> "empty"

get_prompt_config(cache, file) ==
    IF cache # "None" THEN cache
    ELSE CASE file = "present" -> "loaded"
           [] file = "stray_braces" -> "loaded_stray_braces"
           [] OTHER -> "empty"

\* get_client: the instance after the call, "None" when it raised
get_client(instance, has_api_key) ==
    IF instance # "None" THEN instance
    ELSE IF has_api_key THEN "OpenAI" ELSE "None"

\* What the request and response.choices[0].message.content give: a text, None,
\* or the failure of the request.
NoRequest == [kind |-> "no request", text |-> <<>>]
LLM_OUTCOMES ==
    {[kind |-> "content", text |-> t] : t \in TEXTS}
        \cup {[kind |-> "None", text |-> <<>>], [kind |-> "raise", text |-> <<>>]}

\* the record of a Recovery Parser call
ParserCall(p, text) ==
    [parser |-> p, json_text |-> text,
     cleaned |-> Normalize(p, text), parsed |-> Parse(p, text)]

NoParserCall ==
    [parser |-> "none", json_text |-> <<>>, cleaned |-> <<>>, parsed |-> NotCalled]

\* the overwrite without the warning
EnforceSilently(financial_data, expected) ==
    [data |-> JObj(Put(financial_data.m, COMPANY_SLUG, JStr(expected))),
     warned |-> FALSE]

\* the identifier check without the overwrite
EnforceWarnOnly(financial_data, expected) ==
    [data |-> financial_data,
     warned |-> ~(COMPANY_SLUG \in DOMAIN financial_data.m
                    /\ financial_data.m[COMPANY_SLUG] = JStr(expected))]

\* Schema Enforcer: "if financial_data.get('company_slug') != expected:"
\* st.warning(...) and financial_data["company_slug"] = expected
Enforce(financial_data, expected) ==
    LET m == financial_data.m
        differs == ~(COMPANY_SLUG \in DOMAIN m /\ m[COMPANY_SLUG] = JStr(expected))
    IN  [data |-> IF differs THEN JObj(Put(m, COMPANY_SLUG, JStr(expected)))
                  ELSE financial_data,
         warned |-> differs]

\* what a call leaves: its result, the class of the exception that was
\* raised in it ("PromptMissing" for the early return, "none" for none), the
\* requests it made, whether it warned, and its parser call
Outcome(res, fail, requests, warn, call) ==
    [result |-> res, failure |-> fail, llm_requests |-> requests,
     warned |-> warn, call |-> call]

\* an exception raised inside the try block
Caught(exc, requests, call) ==
    Outcome(ExceptClauses(exc), exc.type, requests, FALSE, call)

\* "json_text = response.choices[0].message.content.strip()" and the call of
\* the parser of entry point e, where the reply has a content
ParserCallOf(e, llm) ==
    IF llm.kind = "content" THEN ParserCall(ParserOf(e), strip(llm.text))
    ELSE NoParserCall

\* the try block of a generic entry point from the request on; call is
\* ParserCallOf(e, llm)
GenericTail(e, llm, call) ==
    IF llm.kind = "raise" THEN Caught(CONNECTION_ERROR, 1, NoParserCall)
    ELSE IF llm.kind = "None"
        THEN Caught(NoAttribute(TypeName(JNull), <<"s", "t", "r", "i", "p">>),
                    1, NoParserCall)
    ELSE IF call.parsed.exc # "none"
        THEN Caught(Exc(call.parsed.exc, <<>>), 1, call)
    ELSE Outcome(Returned(call.parsed.v), "none", 1, FALSE, call)

\* financial_data, the value the parser returned, through the identifier check
Enforced(e, call) ==
    IF ~IsDict(call.parsed.v)
        THEN Caught(NoAttribute(TypeName(call.parsed.v), <<"g", "e", "t">>), 1, call)
    ELSE Outcome(Returned(Enforce(call.parsed.v, ExpectedIdentifier(e)).data), "none",
                 1, Enforce(call.parsed.v, ExpectedIdentifier(e)).warned, call)

\* the same of a company entry point, with the identifier check
CompanyTail(e, llm, call) ==
    IF llm.kind = "raise" THEN Caught(CONNECTION_ERROR, 1, NoParserCall)
    ELSE IF llm.kind = "None"
        THEN Caught(NoAttribute(TypeName(JNull), <<"s", "t", "r", "i", "p">>),
                    1, NoParserCall)
    ELSE IF call.parsed.exc # "none"
        THEN Caught(Exc(call.parsed.exc, <<>>), 1, call)
    ELSE Enforced(e, call)

\* the early return on a missing prompt left out: the request is made with an
\* empty prompt and fails there
PromptNotChecked(e) ==
    Caught(CONNECTION_ERROR, 1, NoParserCall)

PromptMissing(e) ==
    Outcome(Returned(ErrorSentinel(PromptMissingMessage(e))),
            "PromptMissing", 0, FALSE, NoParserCall)

\* the call has run to its return: the state holds what it left
Finish(e, llm, outcome) ==
    \E out \in {outcome} :
    /\ entry' = e
    /\ reply' = (IF out.llm_requests = 0 THEN NoRequest ELSE llm)
    /\ result' = out.result
    /\ failure' = out.failure
    /\ llm_requests' = out.llm_requests
    /\ warned' = out.warned
    /\ parser' = out.call.parser
    /\ json_text' = out.call.json_text
    /\ cleaned' = out.call.cleaned
    /\ parsed' = out.call.parsed
    /\ UNCHANGED otherVars

\* extract_financial_data_with_llm from the prompt configuration it got; tail
\* is its try block from the request on
FinancialOutcome(prompt_config, tail) ==
    IF prompt_config = "empty"
        THEN PromptMissing("extract_financial_data_with_llm")
    ELSE IF prompt_config = "loaded_stray_braces"
        THEN Caught(FORMAT_KEY_ERROR, 0, NoParserCall)
    ELSE tail

\* extract_public_company_data_with_llm from what is at its prompt path
PublicCompanyOutcome(file, tail) ==
    IF ~LoadsPromptText(file)
        THEN PromptMissing("extract_public_company_data_with_llm")
    ELSE tail

\* a company entry point from what is at its prompt path and what get_client
\* gave ("None": it raised)
CompanyOutcome(e, file, client, tail) ==
    IF ~LoadsPromptText(file) THEN PromptMissing(e)
    ELSE IF client = "None" THEN Caught(API_KEY_NOT_FOUND, 0, NoParserCall)
    ELSE tail

\* In the three bodies below a value that is used more than once is bound by a
\* quantifier over a one-element set.  fresh_result takes what the same body
\* gives with the module globals as they are after import.
extract_financial_data_with_llm ==
    /\ entry = "none"
    /\ \E llm \in LLM_OUTCOMES :
       \E call \in {ParserCallOf("extract_financial_data_with_llm", llm)} :
       \E tail \in {GenericTail("extract_financial_data_with_llm", llm, call)} :
       \E file \in FILE_STATES :
       \E prompt_config \in {get_prompt_config(_PROMPT_CACHE, file)} :
         /\ _PROMPT_CACHE' = prompt_config
         /\ UNCHANGED _client_instance
         /\ prompt_file' = file
         /\ fresh_result' =
              FinancialOutcome(get_prompt_config("None", file), tail).result
         /\ Finish("extract_financial_data_with_llm", llm,
                   FinancialOutcome(prompt_config, tail))

extract_public_company_data_with_llm ==
    /\ entry = "none"
    /\ \E llm \in LLM_OUTCOMES :
       \E call \in {ParserCallOf("extract_public_company_data_with_llm", llm)} :
       \E tail \in {GenericTail("extract_public_company_data_with_llm", llm, call)} :
       \E file \in FILE_STATES :
         /\ UNCHANGED <<_PROMPT_CACHE, _client_instance>>
         /\ prompt_file' = file
         /\ fresh_result' = PublicCompanyOutcome(file, tail).result
         /\ Finish("extract_public_company_data_with_llm", llm,
                   PublicCompanyOutcome(file, tail))

\* extract_grab_data_with_llm, extract_sea_group_data_with_llm and
\* extract_alibaba_data_with_llm: one body, with its own prompt, parser and
\* expected identifier
CompanyEntryPoint(e) ==
    /\ entry = "none"
    /\ \E llm \in LLM_OUTCOMES :
       \E call \in {ParserCallOf(e, llm)} :
       \E tail \in {CompanyTail(e, llm, call)} :
       \E file \in FILE_STATES, has_api_key \in BOOLEAN :
       \E client \in {get_client(_client_instance, has_api_key)} :
         /\ UNCHANGED _PROMPT_CACHE
         /\ prompt_file' = file
         /\ _client_instance' =
              (IF LoadsPromptText(file) THEN client ELSE _client_instance)
         /\ fresh_result' =
              CompanyOutcome(e, file, get_client("None", has_api_key), tail).result
         /\ Finish(e, llm, CompanyOutcome(e, file, client, tail))

extract_grab_data_with_llm == CompanyEntryPoint("extract_grab_data_with_llm")

extract_sea_group_data_with_llm ==
    CompanyEntryPoint("extract_sea_group_data_with_llm")

extract_alibaba_data_with_llm ==
    CompanyEntryPoint("extract_alibaba_data_with_llm")

\* the caller has taken the result: the next user action can start a call
NextInteraction ==
    /\ entry # "none"
    /\ entry' = "none"
    /\ prompt_file' = "none"
    /\ reply' = NoRequest
    /\ result' = Returned(JNull)
    /\ fresh_result' = Returned(JNull)
    /\ failure' = "none"
    /\ llm_requests' = 0
    /\ warned' = FALSE
    /\ parser' = "none"
    /\ json_text' = <<>>
    /\ cleaned' = <<>>
    /\ parsed' = NotCalled
    /\ UNCHANGED <<_PROMPT_CACHE, _client_instance>>
    /\ UNCHANGED otherVars

(***************************************************************************)
(* The pages of the application: authentication.py, navigation.py,         *)
(* public_company_ui.py, private_company_ui.py and ui_components.py.  One  *)
(* action is one run of the script, started by one interaction, up to the  *)
(* end of the run that follows st.rerun().                                 *)
(***************************************************************************)
\* a session_state key that is not set
Unset == JVal("unset", <<>>, 0, 0, <<>>, <<>>)

\* bool(v)
bool(v) ==
    CASE v.t \in {"unset", "null", "false"} -> FALSE
      [] v.t = "true" -> TRUE
      [] v.t = "num" -> v.n # 0 \/ v.s # <<>>
      [] v.t = "str" -> v.s # <<>>
      [] v.t = "arr" -> v.a # <<>>
      [] v.t = "obj" -> DOMAIN v.m # {}

\* "key in v": membership in a dict or a list, substring of a str, TypeError
\* for None, a bool or a number
Contains(v, key) ==
    CASE v.t = "obj" -> [exc |-> "none", v |-> key \in DOMAIN v.m]
      [] v.t = "arr" -> [exc |-> "none", v |-> \E i \in DOMAIN v.a : v.a[i] = JStr(key)]
      [] v.t = "str" ->
            [exc |-> "none",
             v |-> \E i \in 1 .. Len(v.s) + 1 : startswith(From(v.s, i - 1), key)]
      [] OTHER -> [exc |-> "TypeError", v |-> FALSE]

UPPERCASE ==
    <<"A", "B", "C", "D", "E", "F", "G", "H", "I", "J", "K", "L", "M",
      "N", "O", "P", "Q", "R", "S", "T", "U", "V", "W", "X", "Y", "Z">>

LOWERCASE ==
    <<"a", "b", "c", "d", "e", "f", "g", "h", "i", "j", "k", "l", "m",
      "n", "o", "p", "q", "r", "s", "t", "u", "v", "w", "x", "y", "z">>

\* str.lower() of an ASCII text
lower(text) ==
    [i \in DOMAIN text |->
        IF \E k \in DOMAIN UPPERCASE : UPPERCASE[k] = text[i]
        THEN LOWERCASE[CHOOSE k \in DOMAIN UPPERCASE : UPPERCASE[k] = text[i]]
        ELSE text[i]]

\* a match on a part of a key: "any(normalized_answer in key for key in
\* user_data)" for "normalized_answer in user_data"
VerifyBySubstring(answer, user_data) ==
    LET normalized_answer == lower(strip(answer))
        matches == {key \in DOMAIN user_data :
                       \E i \in 1 .. Len(key) + 1 :
                           startswith(From(key, i - 1), normalized_answer)}
    IN  IF matches # {}
        THEN [is_valid |-> TRUE, user_name |-> user_data[CHOOSE key \in matches : TRUE]]
        ELSE [is_valid |-> FALSE, user_name |-> "None"]

verify_user_answer(answer, user_data) ==
    LET normalized_answer == lower(strip(answer))
    IN  IF normalized_answer \in DOMAIN user_data
        THEN [is_valid |-> TRUE, user_name |-> user_data[normalized_answer]]
        ELSE [is_valid |-> FALSE, user_name |-> "None"]

\* what user_verify_question.json holds: answers and the names of their users
USER_DATA ==
    Put(Put(Put(<<>>, <<"s", "u", "s", "h", "i">>, "Terence"),
            <<"p", "h", "o">>, "Duc"),
        <<"R", "a", "m", "e", "n">>, "Ken")

\* the texts typed into the answer field
ANSWERS ==
    { <<>>, <<" ">>, <<"s", "u", "s", "h", "i">>, <<"S", "U", "S", "H", "I", " ">>,
      <<" ", "P", "h", "o">>, <<"p", "i", "z", "z", "a">>, <<"s", "u">>,
      <<"R", "a", "m", "e", "n">> }

COMPANY_TYPE_OPTIONS ==
    <<"Public companies (Grab, Sea Group...)", "Private company (Glints, Shopback...)">>

BUKALAPAK == <<"b", "u", "k", "a", "l", "a", "p", "a", "k">>
VNG_CORP == <<"v", "n", "g", "-", "c", "o", "r", "p">>

\* company_extractors.COMPANY_EXTRACTORS: the keys of an entry the pages read
COMPANY_EXTRACTORS ==
    Put(Put(Put(Put(Put(<<>>,
        GRAB_COM, [extraction_function |-> "extract_grab_data_with_llm",
                   status |-> "implemented", has_database_push |-> TRUE]),
        SEA_GROUP_GARENA, [extraction_function |-> "extract_sea_group_data_with_llm",
                           status |-> "implemented", has_database_push |-> TRUE]),
        ALIBABA_GROUP, [extraction_function |-> "extract_alibaba_data_with_llm",
                        status |-> "implemented", has_database_push |-> TRUE]),
        BUKALAPAK, [extraction_function |-> "None", status |-> "coming_soon",
                    has_database_push |-> FALSE]),
        VNG_CORP, [extraction_function |-> "None", status |-> "coming_soon",
                   has_database_push |-> FALSE])

get_company_status(company_slug) ==
    IF company_slug \notin DOMAIN COMPANY_EXTRACTORS THEN "unknown"
    ELSE COMPANY_EXTRACTORS[company_slug].status

\* "None" when the company has no extraction function
get_extraction_function(company_slug) ==
    IF company_slug \notin DOMAIN COMPANY_EXTRACTORS THEN "None"
    ELSE COMPANY_EXTRACTORS[company_slug].extraction_function

\* the placeholder of the company dropdown, and the None of
\* selected_public_company_slug
SELECT == <<"S", "e", "l", "e", "c", "t">>
NoSlug == <<>>

\* the slugs of public_companies_list.json, taken to list the registry
PUBLIC_COMPANIES == DOMAIN COMPANY_EXTRACTORS

DATE == <<"d", "a", "t", "e">>

\* st.session_state before the first run
InitialSessionState ==
    [authenticated |-> FALSE, user_name |-> "unset", page |-> "authentication",
     company_type |-> "None", selected_public_company_slug |-> NoSlug,
     extracted_data |-> Unset, last_pushed_record_id |-> "unset",
     last_pushed_date |-> Unset]

\* the page function a run calls
Route(ss) == IF ~ss.authenticated THEN "authentication" ELSE ss.page

NoEvent ==
    [kind |-> "none", answer |-> <<>>, user_data |-> <<>>, option |-> "None",
     company |-> NoSlug, pdf_text |-> FALSE, extraction_function |-> "None",
     financial_data |-> NotCalled, before |-> Unset]

NotPushed == [push_func |-> "None", company_slug |-> NoSlug, record |-> Unset]

\* what a run leaves on the screen
Screen(page, uploader, extract_button, data_shown, push_func, push_button) ==
    [page |-> page, uploader |-> uploader, extract_button |-> extract_button,
     data_shown |-> data_shown, push_func |-> push_func, push_button |-> push_button]

\* render_push_to_database_section(company_slug) up to its button: the push
\* function the button calls, "None" when the section returns before the button
\* or extracted_data.get raises
PushFunction(company_slug, extracted_data, database) ==
    IF ~bool(extracted_data) \/ Contains(extracted_data, ERROR_KEY).v THEN "None"
    ELSE IF ~database THEN "None"
    ELSE IF ~IsDict(extracted_data) THEN "None"
    ELSE IF company_slug = GRAB_COM THEN "push_grab_to_supabase"
    ELSE IF company_slug = SEA_GROUP_GARENA THEN "push_sea_group_to_supabase"
    ELSE "None"

\* render_grab_ui, render_sea_group_ui and render_alibaba_ui: the uploader, the
\* results and the push section
render_company_ui(company_slug, extracted_data, uploaded_file, database) ==
    LET push_func ==
            IF bool(extracted_data)
                 /\ (company_slug = GRAB_COM
                       \/ COMPANY_EXTRACTORS[company_slug].has_database_push)
            THEN PushFunction(company_slug, extracted_data, database) ELSE "None"
    IN  Screen("public_company", TRUE, uploaded_file = "pdf",
               IF bool(extracted_data) THEN extracted_data ELSE Unset,
               push_func, IF push_func = "None" THEN NoSlug ELSE company_slug)

\* the screen of a run on session state ss with widget values w
Render(ss, w, database) ==
    CASE Route(ss) = "private_company" ->
            Screen("private_company", TRUE, w.uploaded_file = "pdf",
                   IF bool(ss.extracted_data) THEN ss.extracted_data ELSE Unset,
                   "None", NoSlug)
      [] Route(ss) = "public_company" /\ w.selected_company # SELECT
           /\ get_company_status(w.selected_company) = "implemented" ->
            render_company_ui(w.selected_company, ss.extracted_data,
                              w.uploaded_file, database)
      [] OTHER -> Screen(Route(ss), FALSE, FALSE, Unset, "None", NoSlug)

\* render_public_company_page stores the company of the dropdown, None for
\* "Select"; the other pages store nothing when no button is pressed
PageRun(ss, w) ==
    IF Route(ss) = "public_company"
    THEN [ss EXCEPT !.selected_public_company_slug =
             IF w.selected_company # SELECT THEN w.selected_company ELSE NoSlug]
    ELSE ss

\* the widgets of a page that was left start again from their defaults
FreshWidgets == [selected_company |-> SELECT, uploaded_file |-> "none"]

\* the run that ends an interaction: ss is the session state the handler left,
\* w the values of the widgets
EndRun(ss, w, ev, push) ==
    \E screen \in {Render(PageRun(ss, w), w, supabase)} :
      /\ session_state' = PageRun(ss, w)
      /\ displayed' = screen
      /\ widgets' = [w EXCEPT !.uploaded_file =
                        IF screen.uploader THEN w.uploaded_file ELSE "none"]
      /\ event' = ev
      /\ pushed' = push
      /\ UNCHANGED supabase

\* process_pdf_file from "if 'error' in financial_data:" on: the extracted_data
\* it leaves; the TypeError of the test is caught by its except clause
StoreAnyResult(extracted_data, financial_data) == financial_data

StoreResult(extracted_data, financial_data) ==
    IF Contains(financial_data, ERROR_KEY).exc # "none" THEN extracted_data
    ELSE IF Contains(financial_data, ERROR_KEY).v THEN extracted_data
    ELSE financial_data

\* no page has run
UIIdle ==
    /\ session_state = InitialSessionState
    /\ widgets = FreshWidgets
    /\ displayed = Render(InitialSessionState, FreshWidgets, FALSE)
    /\ event = NoEvent
    /\ pushed = NotPushed
    /\ supabase = FALSE

(***************************************************************************)
(* main.py, the single-page application: its session state, the files it   *)
(* saves under .tmp and its buttons.  st.rerun() ends the run of a handler *)
(* and the script runs again from the top.                                 *)
(***************************************************************************)
CURRENCIES == <<"c", "u", "r", "r", "e", "n", "c", "i", "e", "s">>
ORIGINAL_CURRENCIES == <<"o", "r", "i", "g", "i", "n", "a", "l", "_", "c", "u", "r", "r", "e", "n", "c", "i", "e", "s">>
EXCHANGE_RATES_USED == <<"e", "x", "c", "h", "a", "n", "g", "e", "_", "r", "a", "t", "e", "s", "_", "u", "s", "e", "d">>
COMPANY_NAME == <<"c", "o", "m", "p", "a", "n", "y", "_", "n", "a", "m", "e">>
YEAR_1 == <<"y", "e", "a", "r", "_", "1">>
YEAR_2 == <<"y", "e", "a", "r", "_", "2">>

\* "part in text" of two str
Within(part, text) == \E i \in 0 .. Len(text) : startswith(From(text, i), part)

\* financial_data.get(key, default)
GetOr(financial_data, key, default) ==
    IF key \in DOMAIN financial_data.m THEN financial_data.m[key] ELSE default

sgd_indicators ==
    {<<"S", "$">>, <<"S", "G", "D">>, <<"S", "G", "D", "$">>, <<"s", "i", "n", "g", "a", "p", "o", "r", "e">>, <<"s", "i", "n", "g", "a", "p", "o", "r", "e", " ", "d", "o", "l", "l", "a", "r">>}

singapore_company_indicators ==
    {<<"p", "t", "e", " ", "l", "t", "d">>, <<"p", "t", "e", ".", " ", "l", "t", "d", ".">>, <<"s", "i", "n", "g", "a", "p", "o", "r", "e">>, <<".", "s", "g">>}

\* the texts of a flat dict that str(financial_data) shows: its keys, its str
\* values and the str elements of its lists
TextsOf(financial_data) ==
    DOMAIN financial_data.m
      \cup {financial_data.m[k].s : k \in {x \in DOMAIN financial_data.m :
                                             financial_data.m[x].t = "str"}}
      \cup UNION {{financial_data.m[k].a[i].s : i \in DOMAIN financial_data.m[k].a}
                    : k \in DOMAIN financial_data.m}

\* detect_sgd_currency of a flat dict whose currencies, when present, is a
\* list of str and whose company_name, when present, is a str
detect_sgd_currency(financial_data) ==
    LET currencies == GetOr(financial_data, CURRENCIES, JArr(<<>>))
        company_name == GetOr(financial_data, COMPANY_NAME, JStr(<<>>))
    IN  \/ \E i \in DOMAIN currencies.a, indicator \in sgd_indicators :
              Within(lower(indicator), lower(currencies.a[i].s))
        \/ \E indicator \in singapore_company_indicators :
              Within(lower(indicator), lower(company_name.s))
        \/ \E indicator \in {<<"s", "$">>, <<"s", "g", "d">>, <<"s", "i", "n", "g", "a", "p", "o", "r", "e">>}, text \in TextsOf(financial_data) :
              Within(indicator, lower(text))
        \/ /\ ~bool(currencies)
           /\ bool(GetOr(financial_data, REVENUE, JNull))
           /\ bool(GetOr(financial_data, YEAR_1, JNull))

\* main.convert_sgd_to_usd of a dict without year_1 and year_2, for which the
\* loop over the years converts nothing
main_convert_sgd_to_usd(json_data, rates_file_exists) ==
    IF ~rates_file_exists
    THEN ErrorSentinel(<<"E", "x", "c", "h", "a", "n", "g", "e", " ", "r", "a", "t", "e", " ", "J", "S", "O", "N", " ", "f", "i", "l", "e", " ", "n", "o", "t", " ", "f", "o", "u", "n", "d">>)
    ELSE JObj(Put(Put(Put(json_data.m,
                 ORIGINAL_CURRENCIES, GetOr(json_data, CURRENCIES, JArr(<<>>))),
                 CURRENCIES, JArr(<<JStr(<<"U", "S", "D">>)>>)),
                 EXCHANGE_RATES_USED, JObj(<<>>)))

\* what main.extract_financial_data_with_llm returns to the page: the object
\* of the reply, or its error sentinel
LEGACY_RESULTS ==
    { JObj(Put(Put(<<>>, COMPANY_NAME, JStr(<<"A", " ", "P", "t", "e", " ", "L", "t", "d">>)), REVENUE, JInt(100))),
      JObj(Put(Put(<<>>, COMPANY_NAME, JStr(<<"B", " ", "I", "n", "c">>)), CURRENCIES, JArr(<<JStr(<<"U", "S", "D">>)>>))),
      JObj(Put(<<>>, CURRENCIES, JArr(<<JStr(<<"S", "$">>)>>))),
      ErrorSentinel(<<"I", "n", "v", "a", "l", "i", "d", " ", "J", "S", "O", "N", " ", "r", "e", "s", "p", "o", "n", "s", "e", " ", "f", "r", "o", "m", " ", "L", "L", "M">>) }

\* the paths save_temp_file can give: the name holds the second of the call
TEMP_PATHS == {".tmp/20240101_000001_a.pdf", ".tmp/20240101_000002_a.pdf"}

\* st.session_state after the initialisation of main()
MainInitialState ==
    [uploaded_file_info |-> "None", temp_file_path |-> "None",
     conversion_results |-> JNull, show_conversion |-> FALSE,
     original_financial_data |-> JNull]

MainIdleRun ==
    [uploaded_file |-> "none", rerun |-> FALSE, kind |-> "none",
     before |-> MainInitialState, files_before |-> {}]

\* no run of main.py
LegacyIdle ==
    /\ main_session_state = MainInitialState
    /\ tmp_files = {}
    /\ main_run = MainIdleRun

\* the part of main() every run goes through: a PDF in the uploader is saved
\* under tmp_path and temp_file_path is set to it
SaveUpload(ss, files, uploaded_file, tmp_path) ==
    IF uploaded_file = "pdf"
    THEN [ss |-> [ss EXCEPT !.temp_file_path = tmp_path], files |-> files \cup {tmp_path}]
    ELSE [ss |-> ss, files |-> files]

\* the handler of Clear up to st.rerun()
ClearHandler(ss, files) ==
    LET reset == [ss EXCEPT !.uploaded_file_info = "None",
                            !.temp_file_path = "None",
                            !.conversion_results = JNull,
                            !.show_conversion = FALSE,
                            !.original_financial_data = JNull]
    IN  [ss |-> reset,
         files |-> IF reset.temp_file_path # "None" /\ reset.temp_file_path \in files
                   THEN files \ {reset.temp_file_path} ELSE files]

\* the process after import, before a call of an entry point or of a parser
ExtractionIdle ==
    /\ _PROMPT_CACHE = "None"
    /\ _client_instance = "None"
    /\ entry = "none"
    /\ prompt_file = "none"
    /\ reply = NoRequest
    /\ result = Returned(JNull)
    /\ fresh_result = Returned(JNull)
    /\ failure = "none"
    /\ llm_requests = 0
    /\ warned = FALSE
    /\ parser = "none"
    /\ json_text = <<>>
    /\ cleaned = <<>>
    /\ parsed = NotCalled

Init ==
    /\ ExtractionIdle
    /\ CurrencyIdle
    /\ UIIdle
    /\ LegacyIdle

Next ==
    \/ extract_financial_data_with_llm
    \/ extract_public_company_data_with_llm
    \/ extract_grab_data_with_llm
    \/ extract_sea_group_data_with_llm
    \/ extract_alibaba_data_with_llm
    \/ NextInteraction

Spec == Init /\ [][Next]_vars

(***************************************************************************)
(* The parsers on their own: each is applied to a text of TEXTS as it is.  *)
(***************************************************************************)
ParserInit ==
    /\ _PROMPT_CACHE = "None"
    /\ _client_instance = "None"
    /\ entry = "none"
    /\ prompt_file = "none"
    /\ reply = NoRequest
    /\ result = Returned(JNull)
    /\ fresh_result = Returned(JNull)
    /\ failure = "none"
    /\ llm_requests = 0
    /\ warned = FALSE
    /\ parser = "none"
    /\ json_text \in TEXTS
    /\ cleaned = <<>>
    /\ parsed = NotCalled
    /\ CurrencyIdle
    /\ UIIdle
    /\ LegacyIdle

ApplyParser(p) ==
    /\ parser = "none"
    /\ parser' = p
    /\ cleaned' = Normalize(p, json_text)
    /\ parsed' = Parse(p, json_text)
    /\ UNCHANGED <<_PROMPT_CACHE, _client_instance, entry, prompt_file, reply, result,
                   fresh_result, failure,
                   llm_requests, warned, json_text>>
    /\ UNCHANGED otherVars

Apply_parse_llm_json_response == ApplyParser("_parse_llm_json_response")
Apply_parse_grab_json_response == ApplyParser("_parse_grab_json_response")
Apply_parse_sea_group_json_response == ApplyParser("_parse_sea_group_json_response")
Apply_parse_alibaba_json_response == ApplyParser("_parse_alibaba_json_response")

ParserNext ==
    \/ Apply_parse_llm_json_response
    \/ Apply_parse_grab_json_response
    \/ Apply_parse_sea_group_json_response
    \/ Apply_parse_alibaba_json_response

ParserSpec == ParserInit /\ [][ParserNext]_vars

(***************************************************************************)
(* convert_currency.convert_sgd_to_usd.  Dicts live in heap, a function    *)
(* from addresses 1 .. n to dicts (functions from keys to values); a value *)
(* that is a dict holds the address of the dict.                           *)
(***************************************************************************)
PyVal(t, n, s, items) == [t |-> t, n |-> n, s |-> s, items |-> items]

PyNone == PyVal("NoneType", 0, <<>>, <<>>)
PyInt(n) == PyVal("int", n, <<>>, <<>>)
\* a float that is a whole number
PyFloat(n) == PyVal("float", n, <<>>, <<>>)
\* the float num / den
PyRate(rate) == PyVal("float", 0, <<>>, <<rate.num, rate.den>>)
PyStr(s) == PyVal("str", 0, s, <<>>)
PyList(items) == PyVal("list", 0, <<>>, items)
\* the dict at address a
PyDict(a) == PyVal("dict", a, <<>>, <<>>)

\* bool(v)
Truthy(h, v) ==
    CASE v.t = "NoneType" -> FALSE
      [] v.t = "int" -> v.n # 0
      [] v.t = "float" -> v.n # 0 \/ v.items # <<>>
      [] v.t = "str" -> v.s # <<>>
      [] v.t = "list" -> v.items # <<>>
      [] v.t = "dict" -> DOMAIN h[v.n] # {}

\* str(v) of a str, a non-negative int or None
str(v) ==
    CASE v.t = "str" -> v.s
      [] v.t = "int" -> IntDigits(v.n)
      [] v.t = "NoneType" -> <<"N", "o", "n", "e">>

\* float(v): of an int or a whole float the number; of a str of decimal
\* digits, whitespace around them stripped, their number; of any other str of
\* the model ValueError; of a list or a dict TypeError
float(v) ==
    CASE v.t \in {"int", "float"} -> [exc |-> "none", n |-> v.n]
      [] v.t = "str" ->
            IF strip(v.s) # <<>> /\ \A i \in DOMAIN strip(v.s) : strip(v.s)[i] \in DIGITS
            THEN [exc |-> "none", n |-> IntOf(strip(v.s), 1, Len(strip(v.s)), 0)]
            ELSE [exc |-> "ValueError", n |-> 0]
      [] OTHER -> [exc |-> "TypeError", n |-> 0]

\* round(num / den, 0), den > 0: to the nearest whole number, a tie to the
\* even one
round(num, den) ==
    LET q == num \div den
        r == num - q * den
    IN  IF 2 * r < den THEN q
        ELSE IF 2 * r > den THEN q + 1
        ELSE IF q % 2 = 0 THEN q ELSE q + 1

\* the argument of convert_sgd_to_usd: the address of the input mapping
json_data == 1

financial_metrics ==
    <<"revenue", "profit_before_tax", "profit_after_tax", "net_cash_operating",
      "net_cash_investing", "net_cash_financing", "cash_end_of_year">>

\* the address of the k-th dict allocated from h on
Fresh(h, k) == Cardinality(DOMAIN h) + k

\* h with dict d at the new address a
Alloc(h, a, d) == [x \in (DOMAIN h) \cup {a} |-> IF x = a THEN d ELSE h[x]]

\* copy.copy(json_data): a new dict with the values of the old one, the
\* nested dicts shared with it
copy_copy(h, a) == [heap |-> Alloc(h, Fresh(h, 1), h[a]), addr |-> Fresh(h, 1)]

\* copy.deepcopy of the dict at a, whose values hold dicts of plain values:
\* a new dict at Fresh(h, 1) and a new dict for each dict it holds
deepcopy(h, a) ==
    LET nested == {k \in DOMAIN h[a] : h[a][k].t = "dict"}
        place == CHOOSE f \in [nested -> 2 .. Cardinality(nested) + 1] :
                    \A j, k \in nested : j # k => f[j] # f[k]
        copied == [k \in DOMAIN h[a] |->
                     IF k \in nested THEN PyDict(Fresh(h, place[k])) ELSE h[a][k]]
    IN  [heap |-> [x \in (DOMAIN h) \cup {Fresh(h, 1)}
                        \cup {Fresh(h, place[k]) : k \in nested} |->
                     IF x \in DOMAIN h THEN h[x]
                     ELSE IF x = Fresh(h, 1) THEN copied
                     ELSE h[h[a][CHOOSE k \in nested : Fresh(h, place[k]) = x].n]],
         addr |-> Fresh(h, 1)]

\* "for metric in financial_metrics:" on year_data with its exchange rate
ConvertMetrics(year_data, exchange_rate) ==
    [k \in DOMAIN year_data |->
        IF /\ \E i \in DOMAIN financial_metrics : financial_metrics[i] = k
           /\ year_data[k].t # "NoneType"
           /\ float(year_data[k]).exc = "none"
        THEN PyFloat(round(float(year_data[k]).n * exchange_rate.num, exchange_rate.den))
        ELSE year_data[k]]

ConversionError(msg, arg) == [kind |-> "error", msg |-> msg, arg |-> arg, addr |-> 0]

RECURSIVE ConvertYears(_, _, _, _, _)
\* "for year_key in ['year_1', 'year_2']:" from the i-th key on; used is
\* exchange_rates_used.  Gives the heap and the error the loop ended with,
\* kind "none" when it ran to its end.
ConvertYears(h, converted_data, rate_lookup, i, used) ==
    LET year_key == <<"year_1", "year_2">>[i]
        year_data == h[converted_data][year_key]
        year == str(IF "year" \in DOMAIN h[year_data.n] THEN h[year_data.n]["year"]
                    ELSE PyStr(<<>>))
    IN  IF i > 2
            THEN [heap |-> h, used |-> used, error |-> ConversionError("none", <<>>)]
        ELSE IF ~(year_key \in DOMAIN h[converted_data] /\ Truthy(h, year_data))
            THEN ConvertYears(h, converted_data, rate_lookup, i + 1, used)
        ELSE IF year_data.t # "dict"
            THEN [heap |-> h, used |-> used,
                  error |-> ConversionError("Currency conversion failed: ",
                               <<"A", "t", "t", "r", "i", "b", "u", "t", "e", "E", "r", "r", "o", "r">>)]
        ELSE IF year \in DOMAIN rate_lookup
            THEN ConvertYears(
                     [h EXCEPT ![year_data.n] =
                          ConvertMetrics(h[year_data.n], rate_lookup[year])],
                     converted_data, rate_lookup, i + 1,
                     Put(used, year, PyRate(rate_lookup[year])))
        ELSE [heap |-> h, used |-> used,
              error |-> ConversionError("Exchange rate not found for year ", year)]

\* convert_sgd_to_usd(json_data) on heap h with file at the rates path: the heap
\* it leaves and what it returns
convert_sgd_to_usd(h, file) ==
    LET copy == deepcopy(h, json_data)
        loop == ConvertYears(copy.heap, copy.addr, file.rate_lookup, 1, <<>>)
        converted_data == loop.heap[copy.addr]
        rates == Fresh(loop.heap, 1)
    IN  IF file.state = "missing"
            THEN [heap |-> h,
                  returned |-> ConversionError("Exchange rate JSON file not found", <<>>)]
        ELSE IF file.state = "invalid"
            THEN [heap |-> h,
                  returned |-> ConversionError("Currency conversion failed: ",
                                  <<"J", "S", "O", "N", "D", "e", "c", "o", "d", "e", "E", "r", "r", "o", "r">>)]
        ELSE IF loop.error.msg # "none"
            THEN [heap |-> loop.heap, returned |-> loop.error]
        ELSE [heap |->
                 [Alloc(loop.heap, rates, loop.used) EXCEPT ![copy.addr] =
                     Put(Put(Put(converted_data, "original_currencies",
                                 IF "currencies" \in DOMAIN converted_data
                                 THEN converted_data["currencies"] ELSE PyList(<<>>)),
                             "currencies", PyList(<<<<"U", "S", "D">>>>)),
                         "exchange_rates_used", PyDict(rates))],
              returned |-> [kind |-> "dict", msg |-> "", arg |-> <<>>, addr |-> copy.addr]]

\* the years of the rates file and their rates, as fractions
RATE_LOOKUP ==
    Put(Put(<<>>, <<"2", "0", "2", "0">>, [num |-> 3, den |-> 4]),
        <<"2", "0", "2", "1">>, [num |-> 1, den |-> 2])

RATE_FILES ==
    {[state |-> "missing", rate_lookup |-> <<>>],
     [state |-> "invalid", rate_lookup |-> <<>>],
     [state |-> "present", rate_lookup |-> RATE_LOOKUP],
     [state |-> "present", rate_lookup |-> <<>>]}

\* the mappings a year key holds
YEAR_DATA ==
    {Put(Put(y, "revenue", revenue), "cash_end_of_year", cash) :
        y \in {<<>>,
               Put(<<>>, "year", PyStr(<<"2", "0", "2", "0">>)),
               Put(<<>>, "year", PyInt(2021)),
               Put(<<>>, "year", PyStr(<<"1", "9", "9", "9">>))},
        revenue \in {PyInt(100), PyInt(3), PyInt(-5), PyNone,
                     PyStr(<<"n", "/", "a">>), PyStr(<<" ", "1", "2">>)},
        cash \in {PyInt(2), PyList(<<>>)}}

\* the input mappings: the dict at json_data with year_1 and year_2 at
\* addresses 2 and 3 where they are dicts
INPUT_HEAPS ==
    {<<Put(Put(Put(<<>>, "currencies", PyList(<<<<"S", "G", "D">>>>)),
               "year_1", y1), "year_2", y2),
       d1, d2>> :
        y1 \in {PyDict(2), PyNone},
        y2 \in {PyDict(3), PyStr(<<"x">>)},
        d1 \in YEAR_DATA, d2 \in {d \in YEAR_DATA : d["cash_end_of_year"] = PyInt(2)}}

CurrencyInit ==
    /\ ExtractionIdle
    /\ heap \in INPUT_HEAPS
    /\ rate_file \in RATE_FILES
    /\ returned = NotReturned
    /\ UIIdle
    /\ LegacyIdle

Apply_convert_sgd_to_usd ==
    /\ returned = NotReturned
    /\ \E call \in {convert_sgd_to_usd(heap, rate_file)} :
         /\ heap' = call.heap
         /\ returned' = call.returned
    /\ UNCHANGED <<rate_file, extractionVars, uiVars, legacyVars>>

CurrencyNext == Apply_convert_sgd_to_usd

CurrencySpec == CurrencyInit /\ [][CurrencyNext]_vars

(***************************************************************************)
(* The interactions with the pages.                                        *)
(***************************************************************************)
\* what user_verify_question.json can hold when the page loads it
USER_FILES == {USER_DATA, Put(<<>>, <<"p", "h", "o">>, "Duc")}

\* the documents the LLM replies with on the pages
UI_DOCS ==
    { DObj(<<DATE, REVENUE>>, <<DStr(<<"2", "0", "2", "4">>), DInt(100)>>),
      DObj(<<COMPANY_SLUG>>, <<DStr(SEA_GROUP_GARENA)>>),
      DObj(<<ERROR_KEY>>, <<DInt(1)>>) }

UI_LLM_OUTCOMES ==
    {[kind |-> "content", text |-> Serialize(d)] : d \in UI_DOCS}
        \cup {[kind |-> "content", text |-> <<"n", "o">>],
              [kind |-> "None", text |-> <<>>], [kind |-> "raise", text |-> <<>>]}

UIInit ==
    /\ ExtractionIdle
    /\ CurrencyIdle
    /\ LegacyIdle
    /\ session_state = InitialSessionState
    /\ widgets = FreshWidgets
    /\ event = NoEvent
    /\ pushed = NotPushed
    /\ supabase \in BOOLEAN
    /\ displayed = Render(InitialSessionState, FreshWidgets, supabase)

\* the extraction and conversion variables a page other than the extraction
\* leaves alone
UIOnly == UNCHANGED <<extractionVars, currencyVars, legacyVars>>

\* Submit on the authentication page
render_authentication_page ==
    /\ displayed.page = "authentication"
    /\ \E user_data \in USER_FILES, answer \in ANSWERS :
       \E verified \in {verify_user_answer(answer, user_data)} :
         EndRun(IF answer # <<>> /\ verified.is_valid
                THEN [session_state EXCEPT !.authenticated = TRUE,
                                           !.user_name = verified.user_name,
                                           !.page = "welcome"]
                ELSE session_state,
                widgets,
                [NoEvent EXCEPT !.kind = "Submit", !.answer = answer,
                                !.user_data = user_data],
                NotPushed)
    /\ UIOnly

\* Next on the welcome page
render_welcome_page ==
    /\ displayed.page = "welcome"
    /\ \E i \in DOMAIN COMPANY_TYPE_OPTIONS :
       \E company_type \in {COMPANY_TYPE_OPTIONS[i]} :
         EndRun([session_state EXCEPT
                    !.company_type = company_type,
                    !.page = IF company_type = "Private company"
                             THEN "private_company" ELSE "public_company"],
                FreshWidgets,
                [NoEvent EXCEPT !.kind = "Next", !.option = company_type],
                NotPushed)
    /\ UIOnly

\* Back on the private or the public page
render_back_button ==
    /\ displayed.page \in {"private_company", "public_company"}
    /\ EndRun([session_state EXCEPT !.page = "welcome", !.company_type = "None"],
              FreshWidgets, [NoEvent EXCEPT !.kind = "Back"], NotPushed)
    /\ UIOnly

\* a choice in the company dropdown of the public page
render_public_company_page ==
    /\ displayed.page = "public_company"
    /\ \E company \in PUBLIC_COMPANIES \cup {SELECT} :
         /\ company # widgets.selected_company
         /\ EndRun(session_state, [widgets EXCEPT !.selected_company = company],
                   [NoEvent EXCEPT !.kind = "Select", !.company = company],
                   NotPushed)
    /\ UIOnly

\* a file put into, or taken out of, the uploader
render_file_uploader ==
    /\ displayed.uploader
    /\ \E uploaded_file \in {"none", "pdf", "not_pdf"} :
         /\ uploaded_file # widgets.uploaded_file
         /\ EndRun(session_state, [widgets EXCEPT !.uploaded_file = uploaded_file],
                   [NoEvent EXCEPT !.kind = "Upload"], NotPushed)
    /\ UIOnly

\* the end of process_pdf_file: financial_data is what the extraction
\* function gave, NotCalled when the PDF had no text
Processed(e, pdf_text, financial_data) ==
    EndRun([session_state EXCEPT !.extracted_data =
               IF financial_data.exc = "none"
               THEN StoreResult(session_state.extracted_data, financial_data.v)
               ELSE session_state.extracted_data],
           widgets,
           [NoEvent EXCEPT !.kind = "Extract", !.pdf_text = pdf_text,
                           !.company = session_state.selected_public_company_slug,
                           !.extraction_function = e,
                           !.financial_data = financial_data,
                           !.before = session_state.extracted_data],
           NotPushed)

\* the extraction variables a run of process_pdf_file leaves as they are
callTrace ==
    <<entry, prompt_file, reply, result, fresh_result, failure, llm_requests,
      warned, parser, json_text, cleaned, parsed>>

\* "Extract Financial Data" on a page with a PDF in the uploader
process_pdf_file ==
    /\ displayed.extract_button
    /\ \/ /\ Processed("None", FALSE, NotCalled)
          /\ UNCHANGED <<_PROMPT_CACHE, _client_instance>>
       \/ /\ displayed.page = "private_company"
          /\ \E llm \in UI_LLM_OUTCOMES :
             \E call \in {ParserCallOf("extract_financial_data_with_llm", llm)} :
             \E tail \in {GenericTail("extract_financial_data_with_llm", llm, call)} :
             \E file \in FILE_STATES :
             \E prompt_config \in {get_prompt_config(_PROMPT_CACHE, file)} :
               /\ _PROMPT_CACHE' = prompt_config
               /\ UNCHANGED _client_instance
               /\ Processed("extract_financial_data_with_llm", TRUE,
                            FinancialOutcome(prompt_config, tail).result)
       \/ /\ displayed.page = "public_company"
          /\ \E e \in {get_extraction_function(session_state.selected_public_company_slug)} :
             \E llm \in UI_LLM_OUTCOMES :
             \E call \in {ParserCallOf(e, llm)} :
             \E tail \in {CompanyTail(e, llm, call)} :
             \E file \in FILE_STATES, has_api_key \in BOOLEAN :
             \E client \in {get_client(_client_instance, has_api_key)} :
               /\ UNCHANGED _PROMPT_CACHE
               /\ _client_instance' =
                    (IF LoadsPromptText(file) THEN client ELSE _client_instance)
               /\ Processed(e, TRUE, CompanyOutcome(e, file, client, tail).result)
    /\ UNCHANGED <<callTrace, currencyVars, legacyVars>>

\* "Push to Database" in the push section
render_push_to_database_section ==
    /\ displayed.push_func # "None"
    /\ \E success \in BOOLEAN :
         EndRun(IF success
                THEN [session_state EXCEPT
                        !.last_pushed_record_id = "record_id",
                        !.last_pushed_date =
                            IF DATE \in DOMAIN session_state.extracted_data.m
                            THEN session_state.extracted_data.m[DATE] ELSE JNull]
                ELSE session_state,
                widgets, [NoEvent EXCEPT !.kind = "Push"],
                [push_func |-> displayed.push_func,
                 company_slug |-> displayed.push_button,
                 record |-> session_state.extracted_data])
    /\ UIOnly

UINext ==
    \/ render_authentication_page
    \/ render_welcome_page
    \/ render_back_button
    \/ render_public_company_page
    \/ render_file_uploader
    \/ process_pdf_file
    \/ render_push_to_database_section

UISpec == UIInit /\ [][UINext]_vars

(***************************************************************************)
(* The interactions with main.py.                                          *)
(***************************************************************************)
LegacyInit ==
    /\ ExtractionIdle
    /\ CurrencyIdle
    /\ UIIdle
    /\ LegacyIdle

\* the variables main.py leaves alone
LegacyOnly == UNCHANGED <<extractionVars, currencyVars, uiVars>>

\* the end of a run of main(): what it leaves
MainRan(saved, uploaded_file, rerun, kind) ==
    /\ main_session_state' = saved.ss
    /\ tmp_files' = saved.files
    /\ main_run' = [uploaded_file |-> uploaded_file, rerun |-> rerun, kind |-> kind,
                    before |-> main_session_state, files_before |-> tmp_files]

\* a file put into, or taken out of, the uploader of main.py
main_file_uploader ==
    /\ ~main_run.rerun
    /\ \E uploaded_file \in {"none", "pdf", "not_pdf"}, tmp_path \in TEMP_PATHS :
         /\ uploaded_file # main_run.uploaded_file
         /\ MainRan(SaveUpload(main_session_state, tmp_files, uploaded_file, tmp_path),
                    uploaded_file, FALSE, "Upload")
    /\ LegacyOnly

\* "Extract Financial Data"
main_extract_button ==
    /\ ~main_run.rerun
    /\ main_run.uploaded_file = "pdf"
    /\ \E tmp_path \in TEMP_PATHS, pdf_text \in BOOLEAN, financial_data \in LEGACY_RESULTS :
       \E saved \in {SaveUpload(main_session_state, tmp_files, "pdf", tmp_path)} :
         MainRan([saved EXCEPT !.ss.original_financial_data =
                     IF pdf_text /\ ~Contains(financial_data, ERROR_KEY).v
                     THEN financial_data ELSE @],
                 "pdf", FALSE, "Extract")
    /\ LegacyOnly

\* "Convert to USD"
main_convert_button ==
    /\ ~main_run.rerun
    /\ main_run.uploaded_file = "pdf"
    /\ bool(main_session_state.original_financial_data)
    /\ detect_sgd_currency(main_session_state.original_financial_data)
    /\ \E tmp_path \in TEMP_PATHS, rates_file_exists \in BOOLEAN :
       \E saved \in {SaveUpload(main_session_state, tmp_files, "pdf", tmp_path)} :
       \E conversion_result \in
            {main_convert_sgd_to_usd(main_session_state.original_financial_data,
                                     rates_file_exists)} :
         IF Contains(conversion_result, ERROR_KEY).v
         THEN MainRan(saved, "pdf", FALSE, "Convert")
         ELSE MainRan([saved EXCEPT !.ss.conversion_results = conversion_result,
                                    !.ss.show_conversion = TRUE],
                      "pdf", TRUE, "Convert")
    /\ LegacyOnly

\* "Clear"
main_clear_button ==
    /\ ~main_run.rerun
    /\ MainRan(ClearHandler(main_session_state, tmp_files),
               main_run.uploaded_file, TRUE, "Clear")
    /\ LegacyOnly

\* the run that st.rerun() starts
main_rerun ==
    /\ main_run.rerun
    /\ \E tmp_path \in TEMP_PATHS :
         MainRan(SaveUpload(main_session_state, tmp_files, main_run.uploaded_file, tmp_path),
                 main_run.uploaded_file, FALSE, "Rerun")
    /\ LegacyOnly

LegacyNext ==
    \/ main_file_uploader
    \/ main_extract_button
    \/ main_convert_button
    \/ main_clear_button
    \/ main_rerun

LegacySpec == LegacyInit /\ [][LegacyNext]_vars

(***************************************************************************)
(* Properties                                                              *)
(***************************************************************************)
\* a mapping whose only key is "error"
IsErrorSentinel(v) == IsDict(v) /\ DOMAIN v.m = {ERROR_KEY}

\* C1: every extraction entry point, whatever prompt loading, the LLM call and
\* parsing did, returns a value and lets no exception escape; when a failure
\* occurred (missing prompt, parse failure, LLM or network failure) the value
\* it returns is a mapping whose only key is "error".
C1_EntryPointsReturnErrorSentinel ==
    entry # "none" =>
        /\ result.exc = "none"
        /\ failure # "none" => IsErrorSentinel(result.v)

\* a call in which the request failed in the network layer has returned the
\* sentinel with the message of the exception
C1_Witness ==
    /\ entry \in ENTRY_POINTS
    /\ reply.kind = "raise"
    /\ failure = "APIConnectionError"
    /\ result = Returned(ErrorSentinel(LLM_ERROR \o CONNECTION_ERROR.msg))

\* C2: a value that a recovery parser returns is a JSON object at the top
\* level, never an array, a scalar or null.
C2_ParsersReturnObjects ==
    parser # "none" /\ parsed.exc = "none" => IsDict(parsed.v)

\* C3: on a text without any "{" every recovery parser fails with
\* json.JSONDecodeError and returns no value.
C3_NoBraceFails ==
    parser # "none" /\ find(json_text, "{") = 0 => parsed.exc = "JSONDecodeError"

\* the strict parse and the brace matching of the reply gave an object
CoercedIntoObject == parsed.exc = "none" /\ IsDict(parsed.v)

\* C4: when the reply of the LLM cannot be coerced into a JSON object, the
\* entry point returns exactly {"error": "Invalid JSON response from LLM"} and
\* has made one LLM request, no second one.
C4_ParseErrorSentinel ==
    entry # "none" /\ reply.kind = "content" /\ ~CoercedIntoObject =>
        /\ result = Returned(ErrorSentinel(INVALID_JSON_ERROR))
        /\ llm_requests = 1

\* C5: for every valid JSON object X each recovery parser, its pre-passes
\* included, returns on serialize(X) a value equal to X, every key and every
\* string value unchanged.
C5_RoundTrip ==
    \A d \in DOCS :
        parser # "none" /\ json_text = Serialize(d) => parsed = Returned(Denote(d))

\* the first brace-balanced block of the text by depth counting is valid JSON
HasValidBlock(text) ==
    /\ _extract_json_block(text).some
    /\ loads(_extract_json_block(text).s).exc = "none"

\* C6: on a text prefix + B + suffix that is not valid JSON itself, B the first
\* brace-balanced block by depth counting and valid JSON for an object, every
\* recovery parser returns the object B denotes; a parser fails only when the
\* text holds no balanced block or the block is invalid JSON.
C6_EmbeddedBlock ==
    parser # "none" =>
        /\ loads(json_text).exc # "none" /\ HasValidBlock(json_text) =>
              parsed = loads(_extract_json_block(json_text).s)
        /\ parsed.exc # "none" => ~HasValidBlock(json_text)

\* d holds None as a value, at any depth
RECURSIVE HasNone(_)
HasNone(d) == d.t = "null" \/ \E i \in DOMAIN d.a : HasNone(d.a[i])

\* C7: on a text that is valid JSON for an object but for values written as the
\* token NULL, every recovery parser, the generic one as the three company
\* ones, returns the object with those values null.
C7_NullToken ==
    \A d \in DOCS :
        parser # "none" /\ HasNone(d) /\ json_text = SerializeNULL(d) =>
            parsed = Returned(Denote(d))

\* every member of d but the last has a value token (null, true, false, a
\* string, a number) as its value, and there are two members at least
ValueTokensBeforeKeys(d) ==
    /\ Len(d.a) >= 2
    /\ \A i \in 1 .. (Len(d.a) - 1) :
          d.a[i].t \in {"null", "true", "false", "str", "num"}

\* C8: on an object text in which a line break without the comma stands between
\* a value token and the quote of the next key, every recovery parser inserts
\* the comma and returns the object.
C8_MissingComma ==
    \A d \in DOCS :
        parser # "none" /\ ValueTokensBeforeKeys(d) /\ json_text = SerializeLines(d) =>
            parsed = Returned(Denote(d))

\* no whitespace at either end, no fence at either end, no boilerplate prefix
IsNormalized(text) ==
    /\ strip(text) = text
    /\ ~startswith(text, FENCE)
    /\ ~endswith(text, FENCE)
    /\ \A k \in DOMAIN prefixes_to_remove : ~startswith(text, prefixes_to_remove[k])

\* C9: the output of the Normalizer, _strip_markdown_code_blocks or the inline
\* clean-up of a company parser, has no whitespace at either end, neither
\* starts nor ends with a triple-backtick fence and starts with none of the
\* boilerplate prefixes.
C9_NormalizerOutput ==
    parser # "none" => IsNormalized(cleaned)

\* the text is ws + fence + optional "json" + inner + fence + ws: the two fences
\* do not overlap; the tag is taken as present when "json" follows the fence
MatchedFences(text) ==
    LET s == strip(text)
    IN  /\ startswith(s, FENCE)
        /\ endswith(s, FENCE)
        /\ Len(s) >= Len(FENCE) + Len(IF startswith(s, FENCE_JSON) THEN FENCE_JSON ELSE FENCE)

Tagged(text) == startswith(strip(text), FENCE_JSON)

\* what stands between the fences, trimmed
TrimmedInner(text) ==
    strip(Between(strip(text), IF Tagged(text) THEN Len(FENCE_JSON) ELSE Len(FENCE),
                  Len(FENCE)))

\* C10 as stated: on an input in matched fences the output of the Normalizer,
\* the generic one or the inline one, is the inner text trimmed.
C10_FencedInnerAsStated ==
    parser # "none" /\ MatchedFences(json_text) => cleaned = TrimmedInner(json_text)

\* C10: on an input in matched fences the generic Normalizer gives the inner
\* text trimmed and then one pass of prefix removal; the inline Normalizer
\* gives the inner text trimmed, and where the tag is present and the trimmed
\* inner text starts with a fence again, that fence removed and the rest
\* trimmed.
C10_FencedInner ==
    parser # "none" /\ MatchedFences(json_text) =>
        cleaned =
            IF parser = "_parse_llm_json_response"
                THEN RemovePrefixes(TrimmedInner(json_text), 1)
            ELSE IF Tagged(json_text) /\ startswith(TrimmedInner(json_text), FENCE)
                THEN strip(From(TrimmedInner(json_text), Len(FENCE)))
            ELSE TrimmedInner(json_text)

\* the generic Normalizer has taken a boilerplate prefix off the inner text of
\* a fenced input
C10_Witness ==
    /\ parser = "_parse_llm_json_response"
    /\ MatchedFences(json_text)
    /\ cleaned # TrimmedInner(json_text)
    /\ cleaned = RemovePrefixes(TrimmedInner(json_text), 1)
    /\ cleaned # <<>>

\* the call was made by a company entry point and its parser gave an object
CompanyCallWithObject ==
    /\ entry \in COMPANY_ENTRY_POINTS
    /\ reply.kind = "content"
    /\ CoercedIntoObject

\* the value of company_slug in the parsed object is the expected identifier
SlugAlreadyCorrect ==
    /\ COMPANY_SLUG \in DOMAIN parsed.v.m
    /\ parsed.v.m[COMPANY_SLUG] = JStr(ExpectedIdentifier(entry))

\* C11: for every reply that the parser turns into a JSON object, the mapping a
\* company entry point returns has company_slug equal to its expected
\* identifier, whether the field was absent, wrong or correct in the reply.
C11_IdentifierEnforced ==
    CompanyCallWithObject =>
        /\ result.exc = "none"
        /\ IsDict(result.v)
        /\ COMPANY_SLUG \in DOMAIN result.v.m
        /\ result.v.m[COMPANY_SLUG] = JStr(ExpectedIdentifier(entry))

\* a Sea Group call whose reply had no company_slug returned it with the
\* expected one
C11_Witness ==
    /\ CompanyCallWithObject
    /\ entry = "extract_sea_group_data_with_llm"
    /\ COMPANY_SLUG \notin DOMAIN parsed.v.m
    /\ result.v.m[COMPANY_SLUG] = JStr(SEA_GROUP_GARENA)

\* C12: the Schema Enforcer step of a company entry point emits its warning
\* exactly when a correction was necessary: when the parsed company_slug is
\* absent or differs from the expected identifier, and not when it equals it.
C12_WarningIffCorrection ==
    CompanyCallWithObject => (warned <=> ~SlugAlreadyCorrect)

\* an Alibaba call whose reply carried "alibaba-group" returned without warning
C12_Witness ==
    /\ CompanyCallWithObject
    /\ entry = "extract_alibaba_data_with_llm"
    /\ SlugAlreadyCorrect
    /\ ~warned
    /\ result = Returned(parsed.v)

\* a Grab call whose reply carried another company_slug warned
C12_WitnessWrongSlug ==
    /\ CompanyCallWithObject
    /\ entry = "extract_grab_data_with_llm"
    /\ COMPANY_SLUG \in DOMAIN parsed.v.m
    /\ ~SlugAlreadyCorrect
    /\ warned

\* C13: the Schema Enforcer never fails the pipeline: whatever value the
\* Recovery Parser returned to a company entry point, the identifier check and
\* the overwrite complete without error, and the call returns that value with
\* the identifier and no error result.
C13_EnforcerNeverFails ==
    entry \in COMPANY_ENTRY_POINTS /\ reply.kind = "content" /\ parsed.exc = "none" =>
        /\ failure = "none"
        /\ result = Returned(Enforce(parsed.v, ExpectedIdentifier(entry)).data)

\* d carries a company_slug other than the identifier that entry point e expects
HasWrongSlug(d, e) ==
    /\ COMPANY_SLUG \in DOMAIN Denote(d).m
    /\ Denote(d).m[COMPANY_SLUG] # JStr(ExpectedIdentifier(e))

\* C14: end to end, for a fenced reply whose inner text is a JSON object with a
\* wrong company_slug, a company entry point returns that object with only
\* company_slug replaced by the expected identifier: every other key and value
\* unchanged, no key added or removed.
C14_OnlyIdentifierChanges ==
    \A d \in DOCS :
        /\ entry \in COMPANY_ENTRY_POINTS
        /\ reply.kind = "content"
        /\ MatchedFences(reply.text)
        /\ TrimmedInner(reply.text) = Serialize(d)
        /\ HasWrongSlug(d, entry)
        => result = Returned(JObj(Put(Denote(d).m, COMPANY_SLUG,
                                      JStr(ExpectedIdentifier(entry)))))

\* the prompt file of the call cannot be loaded: it is missing, unreadable or
\* empty, or, where the entry point reads a template section from it, has none
CannotBeLoaded ==
    \/ prompt_file \in {"missing", "unreadable", "empty"}
    \/ entry = "extract_financial_data_with_llm" /\ prompt_file = "no_template"

TemplateCached == _PROMPT_CACHE \in {"loaded", "loaded_stray_braces"}

TransportFailure == failure \in {"ValueError", "APIConnectionError"}

\* str(exc) of the failure of the call
TransportMessage ==
    IF failure = "ValueError" THEN API_KEY_NOT_FOUND.msg ELSE CONNECTION_ERROR.msg

\* C16: a failure raised while obtaining the client or performing the LLM
\* request is caught inside the entry point and returned as exactly
\* {"error": "LLM error: <message>"}, <message> the text of the failure; the
\* parser and the identifier correction are not run in that call.
C16_TransportErrorSentinel ==
    entry # "none" /\ TransportFailure =>
        /\ result = Returned(ErrorSentinel(LLM_ERROR \o TransportMessage))
        /\ parser = "none"
        /\ parsed = NotCalled
        /\ ~warned

\* a Grab call without an API key returned the message of get_client's
\* ValueError, no request made
C16_Witness ==
    /\ entry = "extract_grab_data_with_llm"
    /\ failure = "ValueError"
    /\ _client_instance = "None"
    /\ llm_requests = 0
    /\ result = Returned(ErrorSentinel(LLM_ERROR \o API_KEY_NOT_FOUND.msg))

\* C17: extraction calls share no mutable state: an entry point called with the
\* same arguments, the same prompt file on disk and the same LLM reply returns
\* the same result after every history of earlier calls, so what it returns is
\* what it returns in a process that made no call before; in particular the
\* result of extract_financial_data_with_llm does not depend on whether an
\* earlier call failed to load its prompt
C17_HistoryIndependent ==
    entry # "none" => result = fresh_result

\* the text parser p gives to its first json.loads
StrictParseInput(p, text) ==
    CASE p = "_parse_llm_json_response" -> _strip_markdown_code_blocks(text)
      [] p = "_parse_grab_json_response" ->
            sub_missing_commas(sub_NULL(InlineCleanup(text)))
      [] p = "_parse_sea_group_json_response" -> sub_NULL(InlineCleanup(text))
      [] p = "_parse_alibaba_json_response" ->
            sub_missing_commas(sub_NULL(InlineCleanup(text)))

\* "{" minus "}" over text[start .. idx]
BraceDepth(text, start, idx) ==
    Cardinality({k \in start .. idx : text[k] = "{"})
        - Cardinality({k \in start .. idx : text[k] = "}"})

\* the last index of the first brace-balanced block that starts at the first
\* "{" of text, 0 when there is no such block
FirstBlockEnd(text) ==
    IF find(text, "{") = 0 THEN 0
    ELSE FirstIndex({idx \in find(text, "{") .. Len(text) :
                        BraceDepth(text, find(text, "{"), idx) = 0})

FirstBlock(text) == SubSeq(text, find(text, "{"), FirstBlockEnd(text))

\* the strict parse of text fails and its first block is not valid JSON
BothLayersFail(text) ==
    /\ loads(text).exc # "none"
    /\ FirstBlockEnd(text) # 0
    /\ loads(FirstBlock(text)).exc # "none"

\* a block after the first one is a valid JSON object
LaterBlockIsObject(text) ==
    \E rest \in {From(text, FirstBlockEnd(text))} :
        /\ FirstBlockEnd(rest) # 0
        /\ loads(FirstBlock(rest)).exc = "none"
        /\ IsDict(loads(FirstBlock(rest)).v)

OnlyOpeningFence(text) ==
    startswith(strip(text), FENCE) /\ ~endswith(strip(text), FENCE)

\* the trimmed text has a closing fence and no opening fence
OnlyClosingFence(text) ==
    endswith(strip(text), FENCE) /\ ~startswith(strip(text), FENCE)

\* the trimmed text without its opening marker (the fence, with its tag when
\* "json" follows it), trimmed
AfterOpening(text) ==
    strip(From(strip(text), IF Tagged(text) THEN Len(FENCE_JSON) ELSE Len(FENCE)))

\* the trimmed text without its closing fence, trimmed
BeforeClosing(text) == strip(Between(strip(text), 0, Len(FENCE)))

\* the text with the one marker it has removed
OneFenceRemoved(text) ==
    IF OnlyOpeningFence(text) THEN AfterOpening(text) ELSE BeforeClosing(text)

\* C19 as stated: when only one fence marker is present the Normalizer, the
\* generic one or the inline one, removes just that marker and returns the
\* rest trimmed.
C19_OneFenceAsStated ==
    parser # "none" /\ (OnlyOpeningFence(json_text) \/ OnlyClosingFence(json_text)) =>
        cleaned = OneFenceRemoved(json_text)

\* C19: when only one fence marker is present the generic Normalizer removes
\* that marker, trims the rest and passes it once through prefix removal; the
\* inline Normalizer removes that marker and trims the rest, and where the
\* marker is a tagged opening fence and the rest starts with a fence again,
\* it removes that fence too and trims again.
C19_OneFence ==
    parser # "none" /\ (OnlyOpeningFence(json_text) \/ OnlyClosingFence(json_text)) =>
        cleaned =
            IF parser = "_parse_llm_json_response"
                THEN RemovePrefixes(OneFenceRemoved(json_text), 1)
            ELSE IF OnlyOpeningFence(json_text) /\ Tagged(json_text)
                    /\ startswith(AfterOpening(json_text), FENCE)
                THEN strip(From(AfterOpening(json_text), Len(FENCE)))
            ELSE OneFenceRemoved(json_text)

\* a truncated reply: the generic Normalizer has taken the opening marker off
\* a text that has no closing fence, and what is left parses
C19_Witness ==
    /\ parser = "_parse_llm_json_response"
    /\ OnlyOpeningFence(json_text)
    /\ cleaned = AfterOpening(json_text)
    /\ cleaned # strip(json_text)
    /\ parsed.exc = "none"

\* text neither starts nor ends with a triple-backtick fence and starts with
\* none of the boilerplate prefixes
NoMarker(text) ==
    /\ ~startswith(text, FENCE)
    /\ ~endswith(text, FENCE)
    /\ \A k \in DOMAIN prefixes_to_remove : ~startswith(text, prefixes_to_remove[k])

\* C20 as stated: the Normalizer returns a string for every input, and for
\* every input that neither starts nor ends with a fence and starts with no
\* boilerplate prefix the output is the input with the whitespace at its two
\* ends removed.
C20_ConservativeAsStated ==
    parser # "none" =>
        /\ cleaned \in Seq(STRING)
        /\ NoMarker(json_text) => cleaned = strip(json_text)

\* C20: the Normalizer returns a string for every input, and for every input
\* whose trimmed form neither starts nor ends with a fence and starts with no
\* boilerplate prefix the output is that trimmed form.
C20_Conservative ==
    parser # "none" =>
        /\ cleaned \in Seq(STRING)
        /\ NoMarker(strip(json_text)) => cleaned = strip(json_text)

\* the generic Normalizer has trimmed a text that carries no marker and has
\* left the rest as it was
C20_Witness ==
    /\ parser = "_parse_llm_json_response"
    /\ NoMarker(strip(json_text))
    /\ strip(json_text) # json_text
    /\ strip(json_text) # <<>>
    /\ cleaned = strip(json_text)

\* C27: once get_prompt_config has failed to load the prompt the cache is the
\* empty mapping and stays it: every later extract_financial_data_with_llm
\* returns {"error": "Prompt template is missing."} without a request, whatever
\* is at the prompt path by then; once it has loaded the prompt the cache
\* keeps the texts it loaded.
C27_CacheIsKept ==
    [][/\ (/\ _PROMPT_CACHE = "None"
           /\ entry' = "extract_financial_data_with_llm"
           /\ prompt_file' \in {"missing", "unreadable", "empty", "no_template"})
            => _PROMPT_CACHE' = "empty"
       /\ _PROMPT_CACHE = "empty" =>
            /\ _PROMPT_CACHE' = "empty"
            /\ entry' = "extract_financial_data_with_llm" =>
                  /\ result' = Returned(ErrorSentinel(
                                   PromptMissingMessage("extract_financial_data_with_llm")))
                  /\ llm_requests' = 0
       /\ _PROMPT_CACHE \in {"loaded", "loaded_stray_braces"} =>
            _PROMPT_CACHE' = _PROMPT_CACHE]_vars

\* a call finds the prompt file in place and still returns the error, since an
\* earlier call has left the empty cache
C27_Witness ==
    /\ entry = "extract_financial_data_with_llm"
    /\ prompt_file = "present"
    /\ _PROMPT_CACHE = "empty"
    /\ llm_requests = 0
    /\ result = Returned(ErrorSentinel(
                    PromptMissingMessage("extract_financial_data_with_llm")))

\* C28: an extraction entry point returns a mapping with the key "error" only
\* if a failure occurred: when the prompt loaded, the request succeeded and the
\* reply was recovered as a JSON object, the mapping it returns has no key
\* "error".
C28_ErrorKeyOnlyOnFailure ==
    (/\ entry # "none"
     /\ failure = "none"
     /\ parsed.exc = "none"
     /\ IsDict(parsed.v)) =>
        /\ result.exc = "none"
        /\ IsDict(result.v)
        /\ ERROR_KEY \notin DOMAIN result.v.m

\* json_block of the bracket-matching fallback of a company parser: None when
\* there is no "{" or the loop ends without returning
InlineBlock(text) ==
    IF find(text, "{") = 0 THEN None
    ELSE InlineLoop(text, find(text, "{"), find(text, "{"), 0)

\* C30: the two brace-matching implementations agree: on every text
\* _extract_json_block returns the substring the inline loop of the company
\* parsers selects as json_block, and None exactly when that loop finds no "{"
\* or never returns to depth zero.
C30_BlockExtractorsAgree ==
    parser # "none" =>
        \A text \in {json_text, cleaned, StrictParseInput(parser, json_text)} :
            _extract_json_block(text) = InlineBlock(text)

\* a text with a "}" before its first "{", from which both select a block
C30_Witness ==
    /\ parser # "none"
    /\ find(json_text, "}") # 0
    /\ find(json_text, "}") < find(json_text, "{")
    /\ _extract_json_block(json_text).some
    /\ _extract_json_block(json_text) = InlineBlock(json_text)

\* C29: convert_sgd_to_usd never modifies its argument: whether it returns
\* converted data or an error mapping, also when year_1 was converted before
\* the rate of year_2 was found missing, the input mapping and the mappings
\* under its year_1 and year_2 are after the call what they were before it.
C29_ArgumentUnchanged ==
    [][\A a \in DOMAIN heap : a \in DOMAIN heap' /\ heap'[a] = heap[a]]_vars

\* year_1 was converted in the copy before the rate of year_2 was found
\* missing, and the year_1 of the argument holds its value still
C29_Witness ==
    /\ returned.kind = "error"
    /\ returned.msg = "Exchange rate not found for year "
    /\ heap[json_data]["year_1"] = PyDict(2)
    /\ heap[2]["revenue"] = PyInt(3)
    /\ \E a \in DOMAIN heap : a > 3 /\ "revenue" \in DOMAIN heap[a]
                                /\ heap[a]["revenue"] = PyFloat(2)

\* C21: Next on the welcome page stores the selected option as company_type
\* and sets page to "private_company" for the private-company option of
\* COMPANY_TYPE_OPTIONS and to "public_company" for the public-company option.
C21_NextSetsPage ==
    event.kind = "Next" =>
        /\ session_state.company_type = event.option
        /\ event.option = COMPANY_TYPE_OPTIONS[1] => session_state.page = "public_company"
        /\ event.option = COMPANY_TYPE_OPTIONS[2] => session_state.page = "private_company"

\* the company page of C is on the screen and extracted_data holds an
\* error-free result of an extraction for C
ErrorFreeDataOn(C) ==
    /\ displayed.page = "public_company"
    /\ session_state.selected_public_company_slug = C
    /\ IsDict(session_state.extracted_data)
    /\ ERROR_KEY \notin DOMAIN session_state.extracted_data.m
    /\ COMPANY_SLUG \in DOMAIN session_state.extracted_data.m
    /\ session_state.extracted_data.m[COMPANY_SLUG] = JStr(C)

\* C22: for every company whose registry entry has has_database_push = True
\* (Grab, Sea Group, Alibaba Group), once error-free extracted data exists and
\* the database client is configured, the page of that company renders the
\* push section with its push button.
C22_PushSectionRendered ==
    \A C \in DOMAIN COMPANY_EXTRACTORS :
        COMPANY_EXTRACTORS[C].has_database_push /\ ErrorFreeDataOn(C) /\ supabase
            => displayed.push_button = C

\* C23: authenticated becomes True (with user_name set and page "welcome")
\* only through a Submit whose answer, trimmed and lower-cased, is a key of
\* the loaded user data, and user_name is then the value under that key; a
\* Submit with an empty or a non-matching answer leaves authenticated,
\* user_name and page unchanged.
C23_OnlyByMatchingSubmit ==
    [][LET normalized_answer == lower(strip(event'.answer))
           matching == event'.answer # <<>>
                         /\ normalized_answer \in DOMAIN event'.user_data
       IN  /\ session_state'.authenticated /\ ~session_state.authenticated =>
                /\ event'.kind = "Submit"
                /\ matching
                /\ session_state'.user_name = event'.user_data[normalized_answer]
                /\ session_state'.page = "welcome"
           /\ event'.kind = "Submit" /\ ~matching =>
                /\ session_state'.authenticated = session_state.authenticated
                /\ session_state'.user_name = session_state.user_name
                /\ session_state'.page = session_state.page]_vars

\* "SUSHI " was submitted and Terence is authenticated on the welcome page
C23_Witness ==
    /\ event.kind = "Submit"
    /\ event.answer = <<"S", "U", "S", "H", "I", " ">>
    /\ session_state.authenticated
    /\ session_state.user_name = "Terence"
    /\ displayed.page = "welcome"

\* data is a result of the extraction function of company C: a company entry
\* point returns its object with company_slug set to its own identifier
ExtractedFor(data, C) ==
    /\ IsDict(data)
    /\ COMPANY_SLUG \in DOMAIN data.m
    /\ data.m[COMPANY_SLUG] = JStr(C)

\* C25: the record the push action on the page of company C hands to the
\* push function of C was produced by an extraction run for C, and the data
\* shown on the page of C is data of an extraction for C: data of another
\* company's extraction, or of the private flow, is never shown or pushed
\* under C.
C25_DataBelongsToItsPage ==
    /\ pushed.push_func # "None" => ExtractedFor(pushed.record, pushed.company_slug)
    /\ displayed.page = "public_company" /\ displayed.data_shown # Unset =>
           ExtractedFor(displayed.data_shown, session_state.selected_public_company_slug)

\* the extraction of the last run failed: the PDF gave no text, or the
\* extraction function returned a result with the key "error"
ExtractionFailed ==
    /\ event.kind = "Extract"
    /\ \/ ~event.pdf_text
       \/ /\ event.financial_data.exc = "none"
          /\ IsDict(event.financial_data.v)
          /\ ERROR_KEY \in DOMAIN event.financial_data.v.m

\* C26: in every state of the pages extracted_data is unset or a result
\* without the key "error"; an extraction that fails, or a PDF with no text,
\* leaves extracted_data as it was.
C26_NoErrorResultStored ==
    /\ \/ session_state.extracted_data = Unset
       \/ /\ IsDict(session_state.extracted_data)
          /\ ERROR_KEY \notin DOMAIN session_state.extracted_data.m
    /\ ExtractionFailed => session_state.extracted_data = event.before

\* an extraction failed with the error sentinel after an earlier one had
\* stored its result, which is still there
C26_Witness ==
    /\ ExtractionFailed
    /\ event.pdf_text
    /\ IsErrorSentinel(event.financial_data.v)
    /\ event.before # Unset
    /\ session_state.extracted_data = event.before

\* C24: Clear of the single-page application removes the saved temp PDF from
\* disk if session_state.temp_file_path names an existing file, and resets
\* uploaded_file_info, temp_file_path, conversion_results, show_conversion and
\* original_financial_data.
C24_ClearRemovesTempFile ==
    main_run.kind = "Clear" =>
        /\ main_session_state = MainInitialState
        /\ main_run.before.temp_file_path \in main_run.files_before =>
               main_run.before.temp_file_path \notin tmp_files

====
